---- MODULE Spec2Model ----
(***************************************************************************)
(* Auto-Memory Manager (scripts/auto-memory-manager/auto-memory-manager.ts) *)
(* as a state machine.  Every `await` of the script is a suspension point: *)
(* one action runs a handler from the resolution of one external call to   *)
(* the issue of the next one, as the single-threaded event loop does.      *)
(*                                                                         *)
(* Texts are sequences of one-character strings.  A story section is       *)
(* represented by the length of its text; section identifiers are the      *)
(* positions 1..Len(doc) of an append-only document.                       *)
(***************************************************************************)
EXTENDS Integers, Sequences, FiniteSets, TLC

\* ------------------------------------------------------------------ bounds
MaxSections == 2      \* sections the document may grow to
MaxEvents == 4        \* longest event list a storage object may hold
MaxStarts == 2        \* handler invocations started in one behaviour
MaxInput == 10        \* longest event list handed to compressEvents alone
MaxLines == 4         \* longest summarization response, in lines

\* ------------------------------------------------------- program constants
MinNewChars == 50           \* newText.trim().length < 50
RecentMax == 3              \* Math.min(3, ...) and events.length <= 3
DefaultTokenLimit == 1000   \* DEFAULT_SETTINGS.tokenLimit
LowTokenLimit == 500        \* slider minimum
ThresholdTenths == 8        \* compressionThreshold 0.8
DefaultImportance == 3      \* importance: 3

\* ------------------------------------------------------------ small helpers
Min(a, b) == IF a < b THEN a ELSE b

\* s.slice(from) for 0 <= from (1-based result of dropping `from` elements)
Drop(s, n) == IF n >= Len(s) THEN <<>> ELSE SubSeq(s, n + 1, Len(s))

Take(s, n) == IF n <= 0 THEN <<>> ELSE SubSeq(s, 1, Min(n, Len(s)))

\* Array.prototype.slice(-n): the last n elements; slice(-0) is slice(0)
SliceLast(s, n) == IF n = 0 THEN s ELSE Drop(s, Len(s) - Min(n, Len(s)))

\* Array.prototype.slice(0, -n): all but the last n; slice(0, -0) is empty
SliceButLast(s, n) == IF n = 0 THEN <<>> ELSE Take(s, Len(s) - n)

\* ------------------------------------------------------------------- events
\* generateId(): a label no code path reads.  The pipeline gives every
\* event the same one; IdsFor(n) are the labels of n new events.
GenerateId == 0

IdsFor(n) == [i \in 1..n |-> GenerateId]

NewEvent(id, ts, text, isCompressed) ==
  [id |-> id, timestamp |-> ts, text |-> text,
   importance |-> DefaultImportance, compressed |-> isCompressed]

\* --------------------------------------------------------- compressEvents
\* The response text is content.split('\n'): a sequence of lines, each a
\* sequence of characters.  "B" stands for the bullet U+2022.
IsSpace(ch) == ch = " "

RECURSIVE TrimStart(_)
TrimStart(line) ==
  IF line # <<>> /\ IsSpace(line[1]) THEN TrimStart(Tail(line)) ELSE line

RECURSIVE TrimEnd(_)
TrimEnd(line) ==
  IF line # <<>> /\ IsSpace(line[Len(line)])
  THEN TrimEnd(SubSeq(line, 1, Len(line) - 1)) ELSE line

\* line.trim()
Trim(line) == TrimStart(TrimEnd(line))

\* line.startsWith(bullet) || line.startsWith('-')
IsBulletLine(line) == line # <<>> /\ line[1] \in {"B", "-"}

\* line.replace(/^[B\-]\s*/, '')
StripMarker(line) ==
  IF IsBulletLine(line) THEN TrimStart(Tail(line)) ELSE line

BulletTexts(lines) ==
  LET trimmed == [i \in 1..Len(lines) |-> Trim(lines[i])]
      kept    == SelectSeq(trimmed, IsBulletLine)
  IN  [i \in 1..Len(kept) |-> StripMarker(kept[i])]

RecentCountThree(n) == RecentMax

\* Math.min(3, Math.floor(events.length * 0.3))
RecentCount(n) == Min(RecentMax, (n * 3) \div 10)

CompressedSwapped(events, lines, newIds, nowv) ==
  LET rc      == RecentCount(Len(events))
      older   == SliceButLast(events, rc)
      bullets == BulletTexts(lines)
      ts      == IF older # <<>> /\ older[1].timestamp # 0
                 THEN older[1].timestamp ELSE nowv
      comp    == [i \in 1..Len(bullets) |->
                    NewEvent(newIds[i], ts, bullets[i], TRUE)]
  IN  SliceLast(events, rc) \o comp

\* The events returned once the service has answered with choices.
CompressedResult(events, lines, newIds, nowv) ==
  LET rc      == RecentCount(Len(events))
      recent  == SliceLast(events, rc)
      older   == SliceButLast(events, rc)
      bullets == BulletTexts(lines)
      ts      == IF older # <<>> /\ older[1].timestamp # 0
                 THEN older[1].timestamp ELSE nowv
      comp    == [i \in 1..Len(bullets) |->
                    NewEvent(newIds[i], ts, bullets[i], TRUE)]
  IN  comp \o recent

\* resp.kind: "raise" (generate rejects), "budget" (rejects with a token
\* budget message), "nochoice" (no choices), "text" (choices[0].text, split
\* into resp.lines).
CompressEvents(events, resp, newIds, nowv) ==
  IF Len(events) <= RecentMax THEN events
  ELSE IF SliceButLast(events, RecentCount(Len(events))) = <<>> THEN events
  ELSE IF resp.kind = "text"
       THEN CompressedResult(events, resp.lines, newIds, nowv)
       ELSE events

\* Whether compressEvents reaches api.v1.generate at all.
CompressCallsService(events) ==
  /\ Len(events) > RecentMax
  /\ SliceButLast(events, RecentCount(Len(events))) # <<>>


\* ------------------------------------------------------------ the pipeline
VARIABLES
  doc,           \* the story: text length of each section, in document order
  stored,        \* storyStorage key 'memoryManagerData'
  defEvents,     \* the array object DEFAULT_STORAGE.events
  defChars,      \* the object DEFAULT_STORAGE.characters
  isProcessing,  \* the module-level lock flag
  memory,        \* the Memory field (api.v1.memory)
  pc,            \* per invocation: the external call it is suspended at
  loc,           \* per invocation: its local `storage`
  ids,           \* per invocation: length of the sectionIds it listed
  cst,           \* per invocation: the `storage` of its compileMemory call
  chunks,        \* forceRefresh: chunks.length
  chunkIx,       \* forceRefresh: the loop index i
  clock,         \* Date.now(), which no step of these runs advances
  starts,        \* handler invocations started so far
  serial,        \* TRUE: the host starts a handler only when none is running
  handed,        \* per section: cycles that handed its text to extraction
  run,           \* serial runs of the cycle on an unchanged stream (see RunAtTrigger)
  snap,          \* the facts a load returned when the current rerun started
  upd,           \* updateSettings: the `updates` argument of the running call
  cIn,           \* compressEvents alone: the events it is given
  cResp,         \* compressEvents alone: what generate() answered
  cOut,          \* compressEvents alone: the events it returned
  cDone,         \* compressEvents alone: it has returned
  tok,           \* per invocation: currentTokens of its compileMemory call,
                 \* 0 once the text at hand is not the measured one
  memTok,        \* the token count of the text in the Memory field
  sets,          \* per invocation: memory.set calls it has made
  ext,           \* per cycle: how its extraction call ended, and the log used
  scanned,       \* forceRefresh: the sections its scan returned
  skipped,       \* per cycle: its latest invocation found the lock held
  observe,       \* TRUE: tok, memTok, sets, ext, scanned and skipped are recorded
  setFails,      \* TRUE: storyStorage.set may reject
  fnArg,         \* a function run alone: its argument
  fnRes,         \* a function run alone: its result
  fnDone         \* a function run alone: it has returned

vars == <<doc, stored, defEvents, defChars, isProcessing, memory, pc, loc, ids,
          cst, chunks, chunkIx, clock, starts, serial, handed, run, snap, upd,
          cIn, cResp, cOut, cDone, tok, memTok, sets, ext, scanned, skipped,
          observe, setFails, fnArg, fnRes, fnDone>>

\* What no pipeline step changes: the scheduling mode, the behaviour of the
\* store and the variables of the functions run alone.
alone == <<serial, observe, setFails, cIn, cResp, cOut, cDone, fnArg, fnRes,
           fnDone>>

\* What is recorded of a refresh's scan and of the invocations turned away.
noted == <<scanned, skipped>>

\* What most pipeline steps leave alone.
fixed == <<alone, noted, tok, memTok, sets, ext>>

\* tok, memTok, sets, ext, scanned and skipped observe the handlers without
\* acting on them:
\* they take value v in observed runs and stay at rest otherwise.
Observed(v, rest) == IF observe THEN v ELSE rest

Cycles == {"c1", "c2"}          \* two deliveries of the onGenerationEnd hook
Refresher == "refresh"          \* the Refresh Now button
Clearer == "clear"              \* the Clear All button
Setter == "settings"            \* a change in the Settings section
Procs == Cycles \cup {Refresher, Clearer, Setter}

SecLens == {20, 7000}           \* section text lengths the user may append

\* DEFAULT_SETTINGS
DefaultSettings == [tokenLimit |-> DefaultTokenLimit, autoUpdate |-> TRUE]

\* DEFAULT_STORAGE as a plain value (lastProcessedSectionId null is 0)
DefaultData ==
  [events |-> <<>>, characters |-> <<>>, settings |-> DefaultSettings,
   lastProcessedSectionId |-> 0, currentSituation |-> <<>>]

\* A local `storage` object.  evAlias / chAlias say that its events /
\* characters property is the very array / object of DEFAULT_STORAGE,
\* which { ...DEFAULT_STORAGE } copies by reference.
Local(data, alias) ==
  [events |-> IF alias THEN <<>> ELSE data.events, evAlias |-> alias,
   characters |-> IF alias THEN <<>> ELSE data.characters, chAlias |-> alias,
   settings |-> data.settings,
   lastProcessedSectionId |-> data.lastProcessedSectionId,
   currentSituation |-> data.currentSituation]

NoLocal == Local(DefaultData, FALSE)

EventsOf(l) == IF l.evAlias THEN defEvents ELSE l.events
CharsOf(l) == IF l.chAlias THEN defChars ELSE l.characters

\* getStorage(): the stored JSON over the defaults, or the defaults
GetStorage ==
  IF stored.present THEN Local(stored.data, FALSE) ELSE Local(DefaultData, TRUE)

\* JSON.stringify(data), evaluated when saveStorage is called
Serialize(l, evs, chs) ==
  [events |-> evs, characters |-> chs, settings |-> l.settings,
   lastProcessedSectionId |-> l.lastProcessedSectionId,
   currentSituation |-> l.currentSituation]

SaveStorageSkipped(l, evs, chs) == stored' = stored

\* How storyStorage.set may end
SetOutcomes == IF setFails THEN BOOLEAN ELSE {TRUE}

\* saveStorage(data): the write reaches the store when it is issued; a
\* rejected storyStorage.set is caught and logged, and nothing is written
SaveStorage(l, evs, chs) ==
  \E ok \in SetOutcomes :
    stored' = IF ok THEN [present |-> TRUE, data |-> Serialize(l, evs, chs)]
              ELSE stored

\* formatMemoryText, as the content of its three sections
FormatMemory(evs, chs, situation) ==
  [timeline |-> [i \in 1..Len(evs) |-> evs[i].text],
   situation |-> situation,
   characters |-> [i \in 1..Len(chs) |-> <<chs[i].name, chs[i].state>>]]

EmptyMemory == FormatMemory(<<>>, <<>>, <<>>)

\* The text formatMemoryText returns, as the sequence of its pieces.
TimelineHeader == "=== STORY TIMELINE ==="
SituationHeader == "=== CURRENT SITUATION ==="
CharactersHeader == "=== KEY CHARACTERS ==="
Newline == "\n"

\* parts.join(sep)
RECURSIVE Joined(_, _)
Joined(parts, sep) ==
  IF parts = <<>> THEN <<>>
  ELSE IF Len(parts) = 1 THEN parts[1]
  ELSE parts[1] \o sep \o Joined(Tail(parts), sep)

SectionSeparatorOneLine == <<Newline>>

\* sections.join('\n\n')
SectionSeparator == <<Newline, Newline>>

\* sections, after the three pushes; "* " is the bullet and its space
Sections(evs, chs, situation) ==
  (IF Len(evs) > 0
   THEN << <<TimelineHeader, Newline>>
           \o Joined([i \in 1..Len(evs) |-> <<"* ">> \o evs[i].text], <<Newline>>) >>
   ELSE <<>>)
  \o (IF situation # <<>>
      THEN << <<SituationHeader, Newline>> \o situation >>
      ELSE <<>>)
  \o (IF Len(chs) > 0
      THEN << <<CharactersHeader, Newline>>
              \o Joined([i \in 1..Len(chs) |-> chs[i].name \o <<": ">> \o chs[i].state],
                        <<Newline>>) >>
      ELSE <<>>)

FormatMemoryText(evs, chs, situation) ==
  Joined(Sections(evs, chs, situation), SectionSeparator)


\* ------------------------------------------------------------------- JSON
\* A JSON text is a sequence of symbols: the punctuation { } [ ] " : , and
\* words (one or more characters without punctuation).  Inside a string
\* every symbol but the quote is content.
Quote == "\""

JNull == [t |-> "null", v |-> <<>>]
JNumber == [t |-> "number", v |-> <<"7">>]
JString(w) == [t |-> "string", v |-> w]
JArray(els) == [t |-> "array", v |-> els]
JObject(members) == [t |-> "object", v |-> members]
JUndefined == [t |-> "undefined", v |-> <<>>]

\* JSON.stringify(val)
RECURSIVE Stringify(_)
RECURSIVE StringifyAll(_, _)
StringifyAll(vals, isObject) ==
  IF vals = <<>> THEN <<>>
  ELSE (IF isObject
        THEN <<Quote>> \o vals[1][1] \o <<Quote, ":">> \o Stringify(vals[1][2])
        ELSE Stringify(vals[1]))
       \o (IF Len(vals) > 1 THEN <<",">> ELSE <<>>)
       \o StringifyAll(Tail(vals), isObject)

Stringify(val) ==
  CASE val.t = "string" -> <<Quote>> \o val.v \o <<Quote>>
    [] val.t = "array"  -> <<"[">> \o StringifyAll(val.v, FALSE) \o <<"]">>
    [] val.t = "object" -> <<"{">> \o StringifyAll(val.v, TRUE) \o <<"}">>
    [] val.t = "number" -> <<"7">>
    [] OTHER            -> <<"null">>

\* JSON.parse, by recursive descent.  A result is [ok, next, val]: whether a
\* value starts at the position asked, where the text goes on, the value.
Failed == [ok |-> FALSE, next |-> 0, val |-> JUndefined]

Parsed(n, val) == [ok |-> TRUE, next |-> n, val |-> val]

\* the position of the first quote at or after i, 0 when there is none
RECURSIVE NextQuote(_, _)
NextQuote(s, i) ==
  IF i > Len(s) THEN 0 ELSE IF s[i] = Quote THEN i ELSE NextQuote(s, i + 1)

ParseString(s, i) ==
  IF i > Len(s) \/ s[i] # Quote THEN Failed
  ELSE LET j == NextQuote(s, i + 1)
       IN  IF j = 0 THEN Failed
           ELSE Parsed(j + 1, JString(SubSeq(s, i + 1, j - 1)))

RECURSIVE ParseValue(_, _)
RECURSIVE ParseElements(_, _, _)
RECURSIVE ParseMembers(_, _, _)
ParseValue(s, i) ==
  IF i > Len(s) THEN Failed
  ELSE IF s[i] = Quote THEN ParseString(s, i)
  ELSE IF s[i] = "["
       THEN IF i + 1 <= Len(s) /\ s[i + 1] = "]"
            THEN Parsed(i + 2, JArray(<<>>))
            ELSE ParseElements(s, i + 1, <<>>)
  ELSE IF s[i] = "{"
       THEN IF i + 1 <= Len(s) /\ s[i + 1] = "}"
            THEN Parsed(i + 2, JObject(<<>>))
            ELSE ParseMembers(s, i + 1, <<>>)
  ELSE IF s[i] = "null" THEN Parsed(i + 1, JNull)
  ELSE IF s[i] = "7" THEN Parsed(i + 1, JNumber)
  ELSE Failed

\* a value at i, then "," and more elements, or "]"
ParseElements(s, i, acc) ==
  LET r == ParseValue(s, i)
  IN  IF ~r.ok \/ r.next > Len(s) THEN Failed
      ELSE IF s[r.next] = ","
           THEN ParseElements(s, r.next + 1, Append(acc, r.val))
      ELSE IF s[r.next] = "]"
           THEN Parsed(r.next + 1, JArray(Append(acc, r.val)))
      ELSE Failed

\* a key at i, ":", a value, then "," and more members, or "}"
ParseMembers(s, i, acc) ==
  LET k == ParseString(s, i)
  IN  IF ~k.ok \/ k.next > Len(s) \/ s[k.next] # ":" THEN Failed
      ELSE LET r == ParseValue(s, k.next + 1)
           IN  IF ~r.ok \/ r.next > Len(s) THEN Failed
               ELSE IF s[r.next] = ","
                    THEN ParseMembers(s, r.next + 1,
                                      Append(acc, <<k.val.v, r.val>>))
               ELSE IF s[r.next] = "}"
                    THEN Parsed(r.next + 1,
                                JObject(Append(acc, <<k.val.v, r.val>>)))
               ELSE Failed

\* JSON.parse(s): ok is FALSE where it throws SyntaxError
JsonParse(s) ==
  LET r == ParseValue(s, 1)
  IN  IF r.ok /\ r.next = Len(s) + 1 THEN r ELSE Failed

\* parsed[key]: the value of the last member named key, or undefined
Property(obj, key) ==
  LET at == {i \in 1..Len(obj.v) : obj.v[i][1] = key}
  IN  IF obj.t # "object" \/ at = {} THEN JUndefined
      ELSE obj.v[CHOOSE i \in at : \A j \in at : j <= i][2]

\* typeof value
TypeOf(val) ==
  CASE val.t \in {"object", "array", "null"} -> "object"
    [] val.t = "string"                      -> "string"
    [] val.t = "number"                      -> "number"
    [] OTHER                                 -> "undefined"

\* ------------------------------------------------- getStorage, on any store
\* The keys of ScriptStorage, in the order of DEFAULT_STORAGE.
StorageKeys ==
  << <<"events">>, <<"characters">>, <<"settings">>,
     <<"lastProcessedSectionId">>, <<"currentSituation">> >>

\* DEFAULT_STORAGE as declared.
DeclaredDefaults ==
  << JArray(<<>>), JObject(<<>>), JObject(<<DefaultSettings>>), JNull, JString(<<>>) >>

\* The properties of DEFAULT_STORAGE as they are now: events and characters
\* are the one array and the one object every spread hands out.
CurrentDefaults ==
  << JArray(defEvents), JObject(defChars), JObject(<<DefaultSettings>>), JNull,
     JString(<<>>) >>

\* A stored value for each key, other than its default.
StoredValues ==
  << JArray(<<JString(<<"a">>)>>), JObject(<< << <<"Ann">>, JString(<<"s">>) >> >>),
     JObject(<< << <<"autoUpdate">>, JNull >> >>), JNumber, JString(<<"x">>) >>

\* The stored object that holds the keys K only.
StoredWith(K) ==
  JObject(SelectSeq([k \in DOMAIN StorageKeys |-> <<StorageKeys[k], StoredValues[k]>>],
                    LAMBDA m : \E k \in K : m[1] = StorageKeys[k]))

\* What storyStorage.get may do: reject, resolve with nothing, or resolve
\* with a text (empty, not JSON, the JSON null, or an object with some keys).
StoredReads ==
  { [kind |-> "reject", text |-> <<>>], [kind |-> "nothing", text |-> <<>>],
    [kind |-> "text", text |-> <<>>], [kind |-> "text", text |-> <<"{", Quote>>],
    [kind |-> "text", text |-> <<"null">>] }
  \cup { [kind |-> "text", text |-> Stringify(StoredWith(K))] :
         K \in SUBSET DOMAIN StorageKeys }

\* getStorage() on read r: whether it raised, and the state it returned, key
\* by key.  { ...DEFAULT_STORAGE, ...parsed } takes a key from parsed when
\* parsed has it and from DEFAULT_STORAGE otherwise.
GetStorageOn(r) ==
  LET parsed == JsonParse(r.text)
  IN  [raised |-> FALSE,
       state  |-> IF r.kind = "text" /\ r.text # <<>> /\ parsed.ok
                  THEN [k \in DOMAIN StorageKeys |->
                          IF Property(parsed.val, StorageKeys[k]).t = "undefined"
                          THEN CurrentDefaults[k]
                          ELSE Property(parsed.val, StorageKeys[k])]
                  ELSE CurrentDefaults]

\* ---------------------------------------------------- extractEventsFromText
MaxTextForExtraction == 8000   \* MAX_TEXT_FOR_EXTRACTION

\* text.slice(start) of a text of n characters, as the range [from, to) it
\* takes; a negative start counts from the end
SliceFrom(n, start) ==
  [from |-> IF start < 0 THEN (IF n + start > 0 THEN n + start ELSE 0)
            ELSE Min(start, n),
   to |-> n]

ProcessTextHead(n) == [from |-> 0, to |-> Min(n, MaxTextForExtraction)]

\* processText, for a text of n characters
ProcessText(n) ==
  IF n > MaxTextForExtraction THEN SliceFrom(n, 0 - MaxTextForExtraction)
  ELSE [from |-> 0, to |-> n]

\* (str.match(/c/g) || []).length
RECURSIVE CountSym(_, _)
CountSym(s, c) ==
  IF s = <<>> THEN 0
  ELSE (IF s[1] = c THEN 1 ELSE 0) + CountSym(Tail(s), c)

\* content.match(/\{[\s\S]*\}/): from the first { to the last }
JsonMatch(content) ==
  LET opens  == {i \in 1..Len(content) : content[i] = "{"}
      first  == CHOOSE i \in opens : \A j \in opens : i <= j
      closes == {i \in 1..Len(content) : content[i] = "}" /\ i > first}
      last   == CHOOSE i \in closes : \A j \in closes : j <= i
  IN  IF opens = {} \/ closes = {} THEN [found |-> FALSE, str |-> <<>>]
      ELSE [found |-> TRUE, str |-> SubSeq(content, first, last)]

RECURSIVE Repeat(_, _)
Repeat(s, n) == IF n <= 0 THEN <<>> ELSE s \o Repeat(s, n - 1)

\* the closers appended to a text that did not parse
Repaired(jsonStr) ==
  jsonStr
  \o Repeat(<<Quote, "]">>, CountSym(jsonStr, "[") - CountSym(jsonStr, "]"))
  \o Repeat(<<"}">>, CountSym(jsonStr, "{") - CountSym(jsonStr, "}"))

\* story-suggestions.ts, generateSuggestions: a quote when the quotes are
\* odd in number, then the closers
SuggestionRepaired(jsonStr) ==
  jsonStr
  \o (IF CountSym(jsonStr, Quote) % 2 # 0 THEN <<Quote>> ELSE <<>>)
  \o Repeat(<<"]">>, CountSym(jsonStr, "[") - CountSym(jsonStr, "]"))
  \o Repeat(<<"}">>, CountSym(jsonStr, "{") - CountSym(jsonStr, "}"))

\* the text handed to the second JSON.parse
JsonCandidate(jsonStr) ==
  IF JsonParse(jsonStr).ok THEN jsonStr ELSE Repaired(jsonStr)

\* { events, characters, situation } read from the parsed value
TypedFacts(parsed) ==
  LET e == Property(parsed, <<"events">>)
      c == Property(parsed, <<"characters">>)
      s == Property(parsed, <<"situation">>)
  IN  [events     |-> IF e.t = "array" THEN e.v ELSE <<>>,
       characters |-> IF TypeOf(c) = "object" THEN c ELSE JObject(<<>>),
       situation  |-> IF TypeOf(s) = "string" THEN s.v ELSE <<>>]

FallbackFacts ==
  [events |-> <<>>, characters |-> JObject(<<>>), situation |-> <<>>]

Returned(facts, channel) == [raised |-> FALSE, facts |-> facts, log |-> channel]

FinalParseRaises == [raised |-> TRUE, facts |-> FallbackFacts, log |-> "none"]

\* catch (finalParseErr): log, then fall through to the fallback return
FinalParseCaught == Returned(FallbackFacts, "log")

RaiseLoggedAsError(kind) == "error"

\* catch (e): log for a token budget message, error otherwise
RaiseLog(kind) == IF kind = "budget" THEN "log" ELSE "error"

\* resp.kind: "raise" (generate rejects), "budget" (rejects with a token
\* budget message), "nochoice" (no choices), "text" (choices[0].text is
\* resp.content).  The result says whether the function raised, the facts
\* it returned, and the channel it logged on.
ExtractEventsFromText(resp) ==
  IF resp.kind \in {"raise", "budget"}
  THEN Returned(FallbackFacts, RaiseLog(resp.kind))
  ELSE IF resp.kind = "nochoice" \/ ~JsonMatch(resp.content).found
  THEN Returned(FallbackFacts, "none")
  ELSE LET r == JsonParse(JsonCandidate(JsonMatch(resp.content).str))
       IN  IF r.ok THEN Returned(TypedFacts(r.val), "none")
           ELSE FinalParseCaught

\* ------------------------------------------------- what the service returns
\* The facts extractEventsFromText returns.  `characters` is whatever value
\* passes `typeof parsed.characters === 'object'`: an object or null.
Facts(evs, ctype, centries, sit) ==
  [events |-> evs, characters |-> [type |-> ctype, entries |-> centries],
   situation |-> sit]

EmptyFacts == Facts(<<>>, "object", <<>>, <<>>)

\* Object.entries(characters): the members of an object, the indexed
\* elements of an array
EntriesOf(c) ==
  IF c.t = "object" THEN [i \in 1..Len(c.v) |-> <<c.v[i][1], c.v[i][2].v>>]
  ELSE IF c.t = "array" THEN [i \in 1..Len(c.v) |-> << <<ToString(i - 1)>>, c.v[i].v >>]
  ELSE <<>>

\* the returned facts as the merge loops read them
ToFacts(tf) ==
  Facts([i \in 1..Len(tf.events) |-> tf.events[i].v],
        IF tf.characters.t = "null" THEN "null" ELSE "object",
        EntriesOf(tf.characters), tf.situation)

\* The JSON object the prompt asks for, its fields as given.
FactsJson(evs, chars, sit) ==
  JObject(<< << <<"events">>, evs >>, << <<"characters">>, chars >>,
             << <<"situation">>, sit >> >>)

TextResponse(val) == [kind |-> "text", content |-> Stringify(val)]

FailedResponses ==
  { [kind |-> k, content |-> <<>>] : k \in {"raise", "budget"} }

\* What api.v1.generate answers to the extraction calls of the pipeline.
PipelineExtractResponses ==
  FailedResponses \cup
  { TextResponse(FactsJson(JArray(<<JString(<<"a">>), JString(<<"b">>)>>),
                           JObject(<< << <<"Ann">>, JString(<<"s">>) >> >>),
                           JString(<<"x">>))),
    TextResponse(FactsJson(JArray(<<JString(<<"a">>)>>), JNull,
                           JString(<<"x">>))) }

\* How an extraction call of the pipeline may end: the kind of answer, the
\* channel logged on, the facts returned.
PipelineExtractions ==
  { [kind |-> r.kind, log |-> ExtractEventsFromText(r).log,
     facts |-> ToFacts(ExtractEventsFromText(r).facts)] :
    r \in PipelineExtractResponses }

ExtractOutcomes == {x.facts : x \in PipelineExtractions}

NoExtraction == [kind |-> "none", log |-> "none"]

\* storage.characters[name] = { name, state, lastUpdated }
SetChar(chs, name, state, ts) ==
  LET entry == [name |-> name, state |-> state, lastUpdated |-> ts]
      at    == {i \in 1..Len(chs) : chs[i].name = name}
  IN  IF at = {} THEN Append(chs, entry)
      ELSE [i \in 1..Len(chs) |-> IF i \in at THEN entry ELSE chs[i]]

RECURSIVE SetChars(_, _, _)
SetChars(chs, entries, ts) ==
  IF entries = <<>> THEN chs
  ELSE SetChars(SetChar(chs, entries[1][1], entries[1][2], ts), Tail(entries), ts)

PushedEventsInFront(evs, texts, newIds, ts) ==
  [i \in 1..Len(texts) |-> NewEvent(newIds[i], ts, texts[i], FALSE)] \o evs

\* for (const eventText of texts) storage.events.push({...})
PushedEvents(evs, texts, newIds, ts) ==
  evs \o [i \in 1..Len(texts) |-> NewEvent(newIds[i], ts, texts[i], FALSE)]

\* `storage` after the three merge loops of processNewContent; the loop over
\* Object.entries(null) throws after the events were pushed.
MergeThrows(f) == f.characters.type = "null"

MergedEvents(l, f) ==
  PushedEvents(EventsOf(l), f.events, IdsFor(Len(f.events)), clock)

MergedChars(l, f) ==
  IF MergeThrows(f) THEN CharsOf(l)
  ELSE SetChars(CharsOf(l), f.characters.entries, clock)

MergedSituation(l, f, adopt) ==
  IF ~MergeThrows(f) /\ adopt /\ f.situation # <<>>
  THEN f.situation ELSE l.currentSituation

\* `storage` and the DEFAULT_STORAGE objects after a merge into storage l
MergedLocal(l, evs, chs, sit) ==
  [l EXCEPT !.events = IF l.evAlias THEN <<>> ELSE evs,
            !.characters = IF l.chAlias THEN <<>> ELSE chs,
            !.currentSituation = sit]

HeapAfter(l, evs, chs) ==
  /\ defEvents' = IF l.evAlias THEN evs ELSE defEvents
  /\ defChars' = IF l.chAlias THEN chs ELSE defChars

\* ------------------------------------------------------------------ ghosts
\* What a load returns for events, characters and currentSituation.
LoadedFacts ==
  [events |-> EventsOf(GetStorage), characters |-> CharsOf(GetStorage),
   situation |-> GetStorage.currentSituation]

NoFacts == [events |-> <<>>, characters |-> <<>>, situation |-> <<>>]

\* run = "first": a cycle is running and no section was appended since it
\* was triggered; "rested": such a cycle has returned and nothing happened
\* since; "second": a cycle triggered in "rested" is running.
RunAtTrigger == IF ~serial THEN "none" ELSE IF run = "rested" THEN "second" ELSE "first"

RunAtReturn(p) ==
  IF p \in Cycles /\ run \in {"first", "second"} THEN "rested" ELSE "none"

\* ------------------------------------------------- processNewContent steps
Quiescent == \A p \in Procs : pc[p] = "idle"

MayStart == starts < MaxStarts /\ (serial => Quiescent)

Started == starts' = starts + 1

\* Sections the scan loop accumulates: all of them when the marker is null,
\* else those after the section whose id equals the marker.
NewSections(marker) ==
  IF marker = 0 THEN 1..Len(doc)
  ELSE IF marker \in 1..Len(doc) THEN (marker + 1)..Len(doc) ELSE {}

\* text.length of the accumulated text, each section adding text + '\n'
RECURSIVE TextLength(_)
TextLength(S) ==
  IF S = {} THEN 0
  ELSE LET i == CHOOSE x \in S : TRUE
       IN  (IF doc[i] > 0 THEN doc[i] + 1 ELSE 0) + TextLength(S \ {i})

TrimmedLengthPadded(S) == TextLength(S) + MinNewChars

\* text.trim().length: the trailing '\n' goes
TrimmedLength(S) == IF TextLength(S) = 0 THEN 0 ELSE TextLength(S) - 1

ReleaseSkipped == isProcessing' = isProcessing

\* finally { isProcessing = false }
Release == isProcessing' = FALSE

\* The invocation ends: its locals are dropped.
Ends(p, runAfter) ==
  /\ pc' = [pc EXCEPT ![p] = "idle"]
  /\ loc' = [loc EXCEPT ![p] = NoLocal]
  /\ ids' = [ids EXCEPT ![p] = 0]
  /\ cst' = [cst EXCEPT ![p] = NoLocal]
  /\ run' = runAfter
  /\ snap' = NoFacts

Return(p) == Ends(p, RunAtReturn(p))

\* A cycle leaves its try block, by return or after catch.
Finish(c) == Release /\ Return(c)

\* A document call of the cycle rejected: catch, then finally.
Rejected(c) == Release /\ Ends(c, "none")

Goto(p, label) == pc' = [pc EXCEPT ![p] = label]

LockNeverHeld == FALSE

\* if (isProcessing)
LockHeld == isProcessing

\* onGenerationEnd fires: the lock check, then getStorage() is awaited
Trigger(c) ==
  /\ pc[c] = "idle"
  /\ MayStart
  /\ IF LockHeld
     THEN /\ skipped' = [skipped EXCEPT ![c] = Observed(TRUE, FALSE)]
          /\ UNCHANGED <<doc, stored, defEvents, defChars, isProcessing, memory,
                         pc, loc, ids, cst, chunks, chunkIx, clock, starts,
                         alone, scanned, tok, memTok, sets, ext, handed, run,
                         snap, upd>>
     ELSE /\ Goto(c, "load")
          /\ Started
          /\ run' = RunAtTrigger
          /\ snap' = IF RunAtTrigger = "second" THEN LoadedFacts ELSE NoFacts
          /\ skipped' = [skipped EXCEPT ![c] = FALSE]
          /\ UNCHANGED <<doc, stored, defEvents, defChars, isProcessing, memory,
                         loc, ids, cst, chunks, chunkIx, clock, alone, scanned,
                         tok, memTok, sets, ext, handed, upd>>

\* getStorage() resolves; autoUpdate is checked, the lock is taken,
\* sectionIds() is awaited
Load(c) ==
  /\ pc[c] = "load"
  /\ IF ~GetStorage.settings.autoUpdate
     THEN Return(c) /\ UNCHANGED isProcessing
     ELSE /\ isProcessing' = TRUE
          /\ loc' = [loc EXCEPT ![c] = GetStorage]
          /\ Goto(c, "ids")
          /\ UNCHANGED <<ids, cst, run, snap>>
  /\ UNCHANGED <<doc, stored, defEvents, defChars, memory, chunks, chunkIx,
                 clock, starts, fixed, handed, upd>>

\* sectionIds() resolves (or rejects); scan() is awaited
ListIds(c) ==
  /\ pc[c] = "ids"
  /\ \E ok \in BOOLEAN :
       IF ~ok THEN Rejected(c)
       ELSE IF Len(doc) = 0 THEN Finish(c)
       ELSE /\ ids' = [ids EXCEPT ![c] = Len(doc)]
            /\ Goto(c, "scan")
            /\ UNCHANGED <<isProcessing, loc, cst, run, snap>>
  /\ UNCHANGED <<doc, stored, defEvents, defChars, memory, chunks, chunkIx,
                 clock, starts, fixed, handed, upd>>

\* scan() resolves (or rejects): the new text is accumulated, the marker is
\* advanced, and either the state is saved or extraction is called
Scan(c) ==
  /\ pc[c] = "scan"
  /\ \E ok \in BOOLEAN :
       LET l  == loc[c]
           S  == NewSections(l.lastProcessedSectionId)
           l2 == [l EXCEPT !.lastProcessedSectionId = ids[c]]
       IN  IF ~ok
           THEN Rejected(c) /\ UNCHANGED <<stored, handed>>
           ELSE /\ loc' = [loc EXCEPT ![c] = l2]
                /\ IF TrimmedLength(S) < MinNewChars
                   THEN /\ SaveStorage(l2, EventsOf(l2), CharsOf(l2))
                        /\ Goto(c, "saveShort")
                        /\ UNCHANGED handed
                   ELSE /\ Goto(c, "extract")
                        /\ handed' = [s \in 1..MaxSections |->
                             IF s \in S THEN Min(handed[s] + 1, 2) ELSE handed[s]]
                        /\ UNCHANGED stored
                /\ UNCHANGED <<isProcessing, ids, cst, run, snap>>
  /\ UNCHANGED <<doc, defEvents, defChars, memory, chunks, chunkIx, clock, starts, fixed, upd>>

\* the short path's saveStorage resolves: return
SaveShortDone(c) ==
  /\ pc[c] = "saveShort"
  /\ Finish(c)
  /\ UNCHANGED <<doc, stored, defEvents, defChars, memory, chunks, chunkIx,
                 clock, starts, fixed, handed, upd>>

\* extractEventsFromText resolves with facts f: the merge loops run, then
\* saveStorage is awaited; a throwing merge goes to catch and finally
Extract(c) ==
  /\ pc[c] = "extract"
  /\ \E x \in PipelineExtractions :
       LET f   == x.facts
           l   == loc[c]
           evs == MergedEvents(l, f)
           chs == MergedChars(l, f)
           l2  == MergedLocal(l, evs, chs, MergedSituation(l, f, TRUE))
       IN  /\ Len(evs) <= MaxEvents
           /\ HeapAfter(l, evs, chs)
           /\ IF MergeThrows(f)
              THEN Finish(c) /\ UNCHANGED <<stored, ext>>
              ELSE /\ loc' = [loc EXCEPT ![c] = l2]
                   /\ SaveStorage(l2, evs, chs)
                   /\ Goto(c, "save")
                   /\ ext' = [ext EXCEPT ![c] =
                              Observed([kind |-> x.kind, log |-> x.log], NoExtraction)]
                   /\ UNCHANGED <<isProcessing, ids, cst, run, snap>>
  /\ UNCHANGED <<doc, memory, chunks, chunkIx, clock, starts, alone, noted, tok,
                 memTok, sets, handed, upd>>

\* saveStorage resolves: compileMemory starts, its getStorage() is awaited
SaveDone(p) ==
  /\ pc[p] = "save"
  /\ Goto(p, "cload")
  /\ UNCHANGED <<doc, stored, defEvents, defChars, isProcessing, memory, loc,
                 ids, cst, chunks, chunkIx, clock, starts, fixed, handed, run,
                 snap, upd>>


\* ---------------------------------------------- the scan loop of a cycle
RECURSIVE NewTextOfAll(_, _, _)
NewTextOfAll(scanResults, marker, startProcessing) ==
  IF scanResults = <<>> THEN <<>>
  ELSE (IF Head(scanResults).text # <<>>
        THEN Head(scanResults).text \o <<Newline>> ELSE <<>>)
       \o NewTextOfAll(Tail(scanResults), marker, startProcessing)

\* newText after the loop over scanResults, entered with the given
\* startProcessing; marker is storage.lastProcessedSectionId, 0 for null
RECURSIVE NewText(_, _, _)
NewText(scanResults, marker, startProcessing) ==
  IF scanResults = <<>> THEN <<>>
  ELSE IF startProcessing
  THEN (IF Head(scanResults).text # <<>>
        THEN Head(scanResults).text \o <<Newline>> ELSE <<>>)
       \o NewText(Tail(scanResults), marker, TRUE)
  ELSE NewText(Tail(scanResults), marker, Head(scanResults).sectionId = marker)

\* ------------------------------------------------------------ countTokens
CharsPerToken == 4          \* Math.ceil(text.length / 4)

CountTokensFloor(len, enc) ==
  [raised |-> FALSE, count |-> IF enc.ok THEN enc.tokens ELSE len \div CharsPerToken]

\* countTokens(text) for a text of len characters; enc is what
\* tokenizer.encode did: resolve with enc.tokens tokens, or reject.
CountTokens(len, enc) ==
  [raised |-> FALSE,
   count |-> IF enc.ok THEN enc.tokens ELSE (len + CharsPerToken - 1) \div CharsPerToken]

\* ----------------------------------------------------- compileMemory steps
\* Token counts the tokenizer (or the fallback) may report for a text.
TokenCounts == {750, 800, 850, 1200}

\* Summarization responses offered to a compileMemory call.
PipelineResponses ==
  { [kind |-> "raise", lines |-> <<>>],
    [kind |-> "text", lines |-> << <<"B", " ", "z">> >>],
    [kind |-> "text", lines |-> << <<"n">> >>] }

AtThreshold(currentTokens, settings) ==
  currentTokens * 10 >= settings.tokenLimit * ThresholdTenths

\* currentTokens > settings.tokenLimit * settings.compressionThreshold
OverThreshold(currentTokens, settings) ==
  currentTokens * 10 > settings.tokenLimit * ThresholdTenths

\* api.v1.memory.set(text): the field changes unless the call rejects
SetMemory(text, ok) == memory' = IF ok THEN text ELSE memory

NotCounted(n) == n

\* one more call of memory.set
OneMore(n) == n + 1

\* invocation p has called memory.set with a text of t tokens
Published(p, t, ok) ==
  /\ memTok' = IF ok THEN Observed(t, memTok) ELSE memTok
  /\ sets' = [sets EXCEPT ![p] = Observed(OneMore(@), 0)]

\* getStorage() of compileMemory resolves; countTokens is awaited
CLoad(p) ==
  /\ pc[p] = "cload"
  /\ cst' = [cst EXCEPT ![p] = GetStorage]
  /\ Goto(p, "count")
  /\ UNCHANGED <<doc, stored, defEvents, defChars, isProcessing, memory, loc,
                 ids, chunks, chunkIx, clock, starts, fixed, handed, run, snap,
                 upd>>

\* countTokens resolves with tok: below the threshold the text is published;
\* above it compressEvents runs, up to its generate call if it makes one
Count(p) ==
  /\ pc[p] = "count"
  /\ \E t \in TokenCounts, ok \in BOOLEAN :
       LET st  == cst[p]
           evs == EventsOf(st)
       IN  /\ tok' = [tok EXCEPT ![p] = Observed(t, 0)]
           /\ IF ~OverThreshold(t, st.settings)
              THEN /\ SetMemory(FormatMemory(evs, CharsOf(st), st.currentSituation), ok)
                   /\ Published(p, t, ok)
                   /\ Goto(p, "publish")
                   /\ UNCHANGED <<stored, cst>>
              ELSE IF CompressCallsService(evs)
              THEN \* recentEvents and olderEvents are sliced before the await
                   /\ cst' = [cst EXCEPT ![p].events = evs]
                   /\ Goto(p, "compress")
                   /\ UNCHANGED <<stored, memory, memTok, sets>>
              ELSE \* compressEvents returns `events` itself
                   /\ SaveStorage(st, evs, CharsOf(st))
                   /\ Goto(p, "csave")
                   /\ UNCHANGED <<memory, cst, memTok, sets>>
  /\ UNCHANGED <<doc, defEvents, defChars, isProcessing, loc, ids, chunks,
                 chunkIx, clock, starts, alone, noted, ext, handed, run, snap, upd>>

\* generate() of compressEvents resolves with resp; the result is assigned
\* to storage.events and saveStorage is awaited
Compress(p) ==
  /\ pc[p] = "compress"
  /\ \E resp \in PipelineResponses :
       LET st   == cst[p]
           out  == CompressEvents(st.events, resp, IdsFor(Len(resp.lines)), clock)
           \* a failed call returns the array it was given
           st2  == IF resp.kind = "text"
                   THEN [st EXCEPT !.events = out, !.evAlias = FALSE]
                   ELSE [st EXCEPT !.events = IF st.evAlias THEN <<>> ELSE @]
       IN  /\ Len(out) <= MaxEvents
           /\ cst' = [cst EXCEPT ![p] = st2]
           /\ SaveStorage(st2, EventsOf(st2), CharsOf(st2))
           \* a changed event list makes a text nobody has measured
           /\ tok' = [tok EXCEPT ![p] = IF out = st.events THEN @ ELSE 0]
           /\ Goto(p, "csave")
  /\ UNCHANGED <<doc, defEvents, defChars, isProcessing, memory, loc, ids,
                 chunks, chunkIx, clock, starts, alone, noted, memTok, sets, ext,
                 handed, run, snap, upd>>

\* the saveStorage of compileMemory resolves; the text is formatted and
\* memory.set is awaited
CSaveDone(p) ==
  /\ pc[p] = "csave"
  /\ \E ok \in BOOLEAN, t \in TokenCounts :
       /\ tok[p] # 0 => t = tok[p]
       /\ SetMemory(FormatMemory(EventsOf(cst[p]), CharsOf(cst[p]),
                                 cst[p].currentSituation), ok)
       /\ Published(p, t, ok)
  /\ Goto(p, "publish")
  /\ UNCHANGED <<doc, stored, defEvents, defChars, isProcessing, loc, ids, cst,
                 chunks, chunkIx, clock, starts, alone, noted, tok, ext, handed, run,
                 snap, upd>>

\* memory.set resolves or rejects: toast or catch, then the cycle's finally
PublishDone(p) ==
  /\ pc[p] = "publish"
  /\ IF p \in Cycles THEN Finish(p) ELSE Return(p) /\ UNCHANGED isProcessing
  /\ tok' = [tok EXCEPT ![p] = 0]
  /\ sets' = [sets EXCEPT ![p] = 0]
  /\ ext' = [q \in Cycles |-> IF q = p THEN NoExtraction ELSE ext[q]]
  /\ UNCHANGED <<doc, stored, defEvents, defChars, memory, chunks, chunkIx,
                 clock, starts, alone, noted, memTok, handed, upd>>


\* ------------------------------------------------------ forceRefresh steps
ChunkSize == 6000           \* CHUNK_SIZE
ChunkOverlap == 1000        \* the stride is CHUNK_SIZE - 1000
ChunkEventBase == 10        \* Math.ceil(10 / chunks.length) + 2
ChunkEventExtra == 2
ChunkMillis == 1000         \* (chunks.length - i) * 1000

CeilDiv(a, b) == (a + b - 1) \div b

\* chunks.length for a text of n characters
ChunkCount(n) ==
  IF n > ChunkSize THEN CeilDiv(n, ChunkSize - ChunkOverlap) ELSE 1

ChunkStrideWhole == ChunkSize

\* i += CHUNK_SIZE - 1000
ChunkStride == ChunkSize - ChunkOverlap

\* The chunks pushed from index i on, each as the range [from, to) that
\* fullText.slice(i, i + CHUNK_SIZE) takes from a text of n characters.
RECURSIVE ChunksFrom(_, _)
ChunksFrom(i, n) ==
  IF i < n
  THEN <<[from |-> i, to |-> Min(i + ChunkSize, n)]>> \o ChunksFrom(i + ChunkStride, n)
  ELSE <<>>

\* chunks, for a fullText of n characters
Chunks(n) ==
  IF n > ChunkSize THEN ChunksFrom(0, n) ELSE <<[from |-> 0, to |-> n]>>

MaxEventsPerChunkOfOne(n) == ChunkEventBase + ChunkEventExtra

\* Math.ceil(10 / chunks.length) + 2
MaxEventsPerChunk(n) == CeilDiv(ChunkEventBase, n) + ChunkEventExtra

ChunkTimestampLater(now, n, i) == now + (n - i) * ChunkMillis

\* Date.now() - (chunks.length - i) * 1000, for chunk i of n
ChunkTimestamp(now, n, i) == now - (n - i) * ChunkMillis

AllSections == 1..Len(doc)

\* storage.events after the loop over the chunks from index i on, when the
\* extraction of chunk k returned windows[k + 1].texts at time
\* windows[k + 1].now
RECURSIVE WindowEvents(_, _, _)
WindowEvents(evs, windows, i) ==
  IF i >= Len(windows) THEN evs
  ELSE LET texts == Take(windows[i + 1].texts, MaxEventsPerChunk(Len(windows)))
       IN  WindowEvents(PushedEvents(evs, texts, IdsFor(Len(texts)),
                                     ChunkTimestamp(windows[i + 1].now, Len(windows), i)),
                        windows, i + 1)

\* Refresh Now: the lock is reset and getStorage() is awaited
RefreshStart ==
  /\ pc[Refresher] = "idle"
  /\ MayStart
  /\ isProcessing' = FALSE
  /\ Goto(Refresher, "rload")
  /\ Started
  /\ run' = "none"
  /\ snap' = NoFacts
  /\ UNCHANGED <<doc, stored, defEvents, defChars, memory, loc, ids, cst,
                 chunks, chunkIx, clock, fixed, handed, upd>>

RLoadKeepsFacts ==
  /\ pc[Refresher] = "rload"
  /\ loc' = [loc EXCEPT ![Refresher] =
               [GetStorage EXCEPT !.events = EventsOf(GetStorage), !.evAlias = FALSE,
                                  !.characters = CharsOf(GetStorage),
                                  !.chAlias = FALSE]]
  /\ Goto(Refresher, "rscan")
  /\ UNCHANGED <<doc, stored, defEvents, defChars, isProcessing, memory, ids,
                 cst, chunks, chunkIx, clock, starts, fixed, handed, run, snap,
                 upd>>

\* getStorage() resolves: events, characters and situation are cleared in
\* the local storage; scan() is awaited
RLoad ==
  /\ pc[Refresher] = "rload"
  /\ loc' = [loc EXCEPT ![Refresher] =
               [GetStorage EXCEPT !.events = <<>>, !.evAlias = FALSE,
                                  !.characters = <<>>, !.chAlias = FALSE,
                                  !.currentSituation = <<>>]]
  /\ Goto(Refresher, "rscan")
  /\ UNCHANGED <<doc, stored, defEvents, defChars, isProcessing, memory, ids,
                 cst, chunks, chunkIx, clock, starts, fixed, handed, run, snap,
                 upd>>

\* scan() resolves (or rejects): too little text ends the refresh, else the
\* text is split and extraction of the first chunk is awaited
RScan ==
  /\ pc[Refresher] = "rscan"
  /\ \E ok \in BOOLEAN :
       IF ok /\ TrimmedLength(AllSections) >= MinNewChars
       THEN /\ chunks' = ChunkCount(TextLength(AllSections))
            /\ chunkIx' = 0
            /\ scanned' = Observed(Len(doc), 0)
            /\ Goto(Refresher, "rchunk")
            /\ UNCHANGED <<loc, ids, cst, run, snap>>
       ELSE Return(Refresher) /\ UNCHANGED <<chunks, chunkIx, scanned>>
  /\ UNCHANGED <<doc, stored, defEvents, defChars, isProcessing, memory, clock,
                 starts, alone, skipped, tok, memTok, sets, ext, handed, upd>>

RChunkLeavesOnThrow ==
  /\ pc[Refresher] = "rchunk"
  /\ \E f \in ExtractOutcomes :
       LET l     == loc[Refresher]
           texts == Take(f.events, MaxEventsPerChunk(chunks))
           evs   == PushedEvents(l.events, texts, IdsFor(Len(texts)),
                                 ChunkTimestamp(clock, chunks, chunkIx))
           chs   == MergedChars(l, f)
           sit   == MergedSituation(l, f, chunkIx = chunks - 1)
       IN  /\ Len(evs) <= MaxEvents
           /\ loc' = [loc EXCEPT ![Refresher] = MergedLocal(l, evs, chs, sit)]
           /\ IF MergeThrows(f) \/ chunkIx + 1 >= chunks
              THEN Goto(Refresher, "rids") /\ UNCHANGED chunkIx
              ELSE Goto(Refresher, "rdelay") /\ chunkIx' = chunkIx + 1
  /\ UNCHANGED <<doc, stored, defEvents, defChars, isProcessing, memory, ids,
                 cst, chunks, clock, starts, fixed, handed, run, snap, upd>>

\* extraction of chunk i resolves with facts f: the capped events are
\* pushed, characters and (last chunk only) the situation are merged; a
\* throwing merge is caught inside the loop.  Then the delay before the
\* next chunk, or sectionIds() after the last one, is awaited
RChunk ==
  /\ pc[Refresher] = "rchunk"
  /\ \E f \in ExtractOutcomes :
       LET l     == loc[Refresher]
           texts == Take(f.events, MaxEventsPerChunk(chunks))
           evs   == PushedEvents(l.events, texts, IdsFor(Len(texts)),
                                 ChunkTimestamp(clock, chunks, chunkIx))
           chs   == MergedChars(l, f)
           sit   == MergedSituation(l, f, chunkIx = chunks - 1)
       IN  /\ Len(evs) <= MaxEvents
           /\ loc' = [loc EXCEPT ![Refresher] = MergedLocal(l, evs, chs, sit)]
  /\ IF chunkIx + 1 < chunks
     THEN Goto(Refresher, "rdelay") /\ chunkIx' = chunkIx + 1
     ELSE Goto(Refresher, "rids") /\ UNCHANGED chunkIx
  /\ UNCHANGED <<doc, stored, defEvents, defChars, isProcessing, memory, ids,
                 cst, chunks, clock, starts, fixed, handed, run, snap, upd>>

\* the one-second timer fires: extraction of the next chunk is awaited
RDelay ==
  /\ pc[Refresher] = "rdelay"
  /\ Goto(Refresher, "rchunk")
  /\ UNCHANGED <<doc, stored, defEvents, defChars, isProcessing, memory, loc,
                 ids, cst, chunks, chunkIx, clock, starts, fixed, handed, run,
                 snap, upd>>

\* sectionIds() resolves (or rejects): the marker is set to the last id
\* and saveStorage is awaited
RIds ==
  /\ pc[Refresher] = "rids"
  /\ \E ok \in BOOLEAN :
       LET l  == loc[Refresher]
           l2 == IF Len(doc) > 0
                 THEN [l EXCEPT !.lastProcessedSectionId = Len(doc)] ELSE l
       IN  IF ok
           THEN /\ loc' = [loc EXCEPT ![Refresher] = l2]
                /\ SaveStorage(l2, l2.events, l2.characters)
                /\ Goto(Refresher, "save")
                /\ UNCHANGED <<ids, cst, run, snap>>
           ELSE Return(Refresher) /\ UNCHANGED stored
  /\ chunks' = 0
  /\ chunkIx' = 0
  /\ scanned' = 0
  /\ UNCHANGED <<doc, defEvents, defChars, isProcessing, memory, clock,
                 starts, alone, skipped, tok, memTok, sets, ext, handed, upd>>


\* --------------------------------------- clearAllEvents and updateSettings
\* Clear All: getStorage() is awaited
ClearStart ==
  /\ pc[Clearer] = "idle"
  /\ MayStart
  /\ Goto(Clearer, "xload")
  /\ Started
  /\ run' = "none"
  /\ snap' = NoFacts
  /\ UNCHANGED <<doc, stored, defEvents, defChars, isProcessing, memory, loc,
                 ids, cst, chunks, chunkIx, clock, fixed, handed, upd>>

\* getStorage() resolves: the facts and the marker are reset and
\* saveStorage is awaited
XLoad ==
  /\ pc[Clearer] = "xload"
  /\ LET l == [GetStorage EXCEPT !.events = <<>>, !.evAlias = FALSE,
                                 !.characters = <<>>, !.chAlias = FALSE,
                                 !.currentSituation = <<>>,
                                 !.lastProcessedSectionId = 0]
     IN  SaveStorage(l, l.events, l.characters)
  /\ Goto(Clearer, "xsave")
  /\ handed' = [s \in 1..MaxSections |-> 0]
  /\ UNCHANGED <<doc, defEvents, defChars, isProcessing, memory, loc, ids, cst,
                 chunks, chunkIx, clock, starts, fixed, run, snap, upd>>

\* saveStorage resolves: memory.set('') is awaited
XSaveDone ==
  /\ pc[Clearer] = "xsave"
  /\ \E ok \in BOOLEAN : SetMemory(EmptyMemory, ok) /\ Published(Clearer, 0, ok)
  /\ Goto(Clearer, "xpub")
  /\ UNCHANGED <<doc, stored, defEvents, defChars, isProcessing, loc, ids, cst,
                 chunks, chunkIx, clock, starts, alone, noted, tok, ext, handed, run,
                 snap, upd>>

\* memory.set resolves
XPubDone ==
  /\ pc[Clearer] = "xpub"
  /\ Return(Clearer)
  /\ sets' = [sets EXCEPT ![Clearer] = 0]
  /\ UNCHANGED <<doc, stored, defEvents, defChars, isProcessing, memory, chunks,
                 chunkIx, clock, starts, alone, noted, tok, memTok, ext, handed, upd>>

\* The `updates` the settings controls pass to updateSettings
Updates == {"autoOn", "autoOff"}

\* { ...storage.settings, ...updates }
ApplyUpdates(settings, u) ==
  CASE u = "autoOn"       -> [settings EXCEPT !.autoUpdate = TRUE]
    [] u = "autoOff"      -> [settings EXCEPT !.autoUpdate = FALSE]
    [] u = "limitLow"     -> [settings EXCEPT !.tokenLimit = LowTokenLimit]
    [] u = "limitDefault" -> [settings EXCEPT !.tokenLimit = DefaultTokenLimit]
    [] OTHER              -> settings

\* a settings control changes: getStorage() is awaited
SettingsStart ==
  /\ pc[Setter] = "idle"
  /\ MayStart
  /\ \E u \in Updates : upd' = u
  /\ Goto(Setter, "sload")
  /\ Started
  /\ run' = "none"
  /\ snap' = NoFacts
  /\ UNCHANGED <<doc, stored, defEvents, defChars, isProcessing, memory, loc,
                 ids, cst, chunks, chunkIx, clock, fixed, handed>>

\* getStorage() resolves: the settings are merged and saveStorage is awaited
SLoad ==
  /\ pc[Setter] = "sload"
  /\ LET l == [GetStorage EXCEPT !.settings = ApplyUpdates(@, upd)]
     IN  SaveStorage(l, EventsOf(l), CharsOf(l))
  /\ Goto(Setter, "ssave")
  /\ UNCHANGED <<doc, defEvents, defChars, isProcessing, memory, loc, ids, cst,
                 chunks, chunkIx, clock, starts, fixed, handed, run, snap, upd>>

\* saveStorage resolves
SSaveDone ==
  /\ pc[Setter] = "ssave"
  /\ Return(Setter)
  /\ upd' = "none"
  /\ UNCHANGED <<doc, stored, defEvents, defChars, isProcessing, memory, chunks,
                 chunkIx, clock, starts, fixed, handed>>

\* ------------------------------------------------------------- environment
\* The story grows by one section (the stream is append-only).
AppendSection ==
  /\ Len(doc) < MaxSections
  /\ \E n \in SecLens : doc' = Append(doc, n)
  /\ run' = "none"
  /\ snap' = NoFacts
  /\ UNCHANGED <<stored, defEvents, defChars, isProcessing, memory, pc, loc,
                 ids, cst, chunks, chunkIx, clock, starts, fixed, handed, upd>>

\* ---------------------------------------------------------- specifications
\* The state after construction, on story d with st under 'memoryManagerData'.
InitPipelineAt(d, st) ==
  /\ doc = d
  /\ stored = st
  /\ defEvents = <<>>
  /\ defChars = <<>>
  /\ isProcessing = FALSE
  /\ memory = EmptyMemory
  /\ pc = [p \in Procs |-> "idle"]
  /\ loc = [p \in Procs |-> NoLocal]
  /\ ids = [p \in Procs |-> 0]
  /\ cst = [p \in Procs |-> NoLocal]
  /\ chunks = 0
  /\ chunkIx = 0
  /\ clock = 0
  /\ starts = 0
  /\ handed = [s \in 1..MaxSections |-> 0]
  /\ run = "none"
  /\ snap = NoFacts
  /\ upd = "none"
  /\ tok = [p \in Procs |-> 0]
  /\ memTok = 0
  /\ sets = [p \in Procs |-> 0]
  /\ ext = [c \in Cycles |-> NoExtraction]
  /\ scanned = 0
  /\ skipped = [c \in Cycles |-> FALSE]

NothingStored == [present |-> FALSE, data |-> DefaultData]

InitPipeline == InitPipelineAt(<<>>, NothingStored)

\* What an earlier refresh of a one-section story of 7000 characters left
\* under 'memoryManagerData': two events from each of its two chunks.
RefreshedStory == <<7000>>

RefreshedStored ==
  [present |-> TRUE,
   data |-> [DefaultData EXCEPT
               !.events = PushedEvents(
                            PushedEvents(<<>>, << <<"a">>, <<"b">> >>, IdsFor(2),
                                         0 - 2 * ChunkMillis),
                            << <<"a">>, <<"b">> >>, IdsFor(2), 0 - ChunkMillis),
               !.characters = SetChar(<<>>, <<"Ann">>, <<"s">>, 0),
               !.currentSituation = <<"x">>,
               !.lastProcessedSectionId = 1]]

NoResponse == [kind |-> "none", lines |-> <<>>]

NoCall == [fn |-> "none"]

InitFn == fnArg = NoCall /\ fnRes = NoCall /\ fnDone = FALSE

InitAlone ==
  cIn = <<>> /\ cResp = NoResponse /\ cOut = <<>> /\ cDone = FALSE /\ InitFn

Init ==
  InitPipeline /\ InitAlone /\ serial = FALSE /\ observe = FALSE /\ setFails = FALSE

SerialInit ==
  InitPipeline /\ InitAlone /\ serial = TRUE /\ observe = TRUE /\ setFails = FALSE

QuietInit ==
  InitPipeline /\ InitAlone /\ serial = TRUE /\ observe = FALSE /\ setFails = FALSE

Next ==
  \/ \E c \in Cycles :
       \/ Trigger(c) \/ Load(c) \/ ListIds(c) \/ Scan(c)
       \/ SaveShortDone(c) \/ Extract(c)
  \/ \E p \in Cycles \cup {Refresher} :
       \/ SaveDone(p) \/ CLoad(p) \/ Count(p) \/ Compress(p)
       \/ CSaveDone(p) \/ PublishDone(p)
  \/ RefreshStart \/ RLoad \/ RScan \/ RChunk \/ RDelay \/ RIds
  \/ ClearStart \/ XLoad \/ XSaveDone \/ XPubDone
  \/ SettingsStart \/ SLoad \/ SSaveDone
  \/ AppendSection

\* Handlers interleave at every await.
Spec == Init /\ [][Next]_vars

\* The host runs one handler at a time, to its end.
SerialSpec == SerialInit /\ [][Next]_vars


\* Every external call returns or raises: a suspended handler is resumed.
Resume(p) ==
  \/ p \in Cycles /\ (Load(p) \/ ListIds(p) \/ Scan(p) \/ SaveShortDone(p) \/ Extract(p))
  \/ p \in Cycles \cup {Refresher} /\
       (SaveDone(p) \/ CLoad(p) \/ Count(p) \/ Compress(p) \/ CSaveDone(p) \/ PublishDone(p))
  \/ p = Refresher /\ (RLoad \/ RScan \/ RChunk \/ RDelay \/ RIds)
  \/ p = Clearer /\ (XLoad \/ XSaveDone \/ XPubDone)
  \/ p = Setter /\ (SLoad \/ SSaveDone)

\* Incremental cycles alone, one at a time, each resumed when its call ends.
CyclesNext ==
  \/ \E c \in Cycles :
       \/ Trigger(c) \/ Load(c) \/ ListIds(c) \/ Scan(c)
       \/ SaveShortDone(c) \/ Extract(c)
       \/ SaveDone(c) \/ CLoad(c) \/ Count(c) \/ Compress(c)
       \/ CSaveDone(c) \/ PublishDone(c)
  \/ AppendSection

CyclesSpec == SerialInit /\ [][CyclesNext]_vars

\* Cycles of a session that opens on a new story or on the refreshed one.
SessionInit ==
  /\ \/ InitPipeline
     \/ InitPipelineAt(RefreshedStory, RefreshedStored)
  /\ InitAlone
  /\ serial = TRUE
  /\ observe = TRUE
  /\ setFails = FALSE

SessionSpec == SessionInit /\ [][CyclesNext]_vars

\* Generation ends arriving at any moment on a story of one long section
\* that does not grow meanwhile, before or after its refresh.
OverlapInit ==
  /\ \/ InitPipelineAt(RefreshedStory, NothingStored)
     \/ InitPipelineAt(RefreshedStory, RefreshedStored)
  /\ InitAlone
  /\ serial = FALSE
  /\ observe = TRUE
  /\ setFails = FALSE

OverlapNext ==
  \E c \in Cycles :
    \/ Trigger(c) \/ Load(c) \/ ListIds(c) \/ Scan(c)
    \/ SaveShortDone(c) \/ Extract(c)
    \/ SaveDone(c) \/ CLoad(c) \/ Count(c) \/ Compress(c)
    \/ CSaveDone(c) \/ PublishDone(c)

OverlapSpec == OverlapInit /\ [][OverlapNext]_vars

\* What the cycles of an earlier session left under 'memoryManagerData' for
\* a one-section story: an event, a character and a situation of their own,
\* recorded one second before this session's clock, and the autoUpdate
\* setting as the user left it.
CycleStored(auto) ==
  [present |-> TRUE,
   data |-> [DefaultData EXCEPT
               !.events = PushedEvents(<<>>, << <<"c">> >>, IdsFor(1), 0 - ChunkMillis),
               !.characters = SetChar(<<>>, <<"Bob">>, <<"t">>, 0 - ChunkMillis),
               !.currentSituation = <<"y">>,
               !.settings = [DefaultSettings EXCEPT !.autoUpdate = auto],
               !.lastProcessedSectionId = 1]]

\* Refresh Now pressed, one press at a time, on a story of 20, 7000 or
\* 14000 characters, with an empty store or the one cycles left.
RefreshInit ==
  /\ \E d \in {<<20>>, <<7000>>, <<7000, 7000>>} :
       \/ InitPipelineAt(d, NothingStored)
       \/ \E auto \in BOOLEAN : InitPipelineAt(d, CycleStored(auto))
  /\ InitAlone
  /\ serial = TRUE
  /\ observe = FALSE
  /\ setFails = FALSE

RefreshNext ==
  \/ RefreshStart \/ RLoad \/ RScan \/ RChunk \/ RDelay \/ RIds
  \/ SaveDone(Refresher) \/ CLoad(Refresher) \/ Count(Refresher)
  \/ Compress(Refresher) \/ CSaveDone(Refresher) \/ PublishDone(Refresher)

RefreshSpec == RefreshInit /\ [][RefreshNext]_vars

\* One handler at a time on a store whose writes may be rejected.
FailingStoreInit ==
  InitPipeline /\ InitAlone /\ serial = TRUE /\ observe = FALSE /\ setFails = TRUE

FailingStoreSpec == FailingStoreInit /\ [][Next]_vars

CyclesFairSpec ==
  QuietInit /\ [][CyclesNext]_vars /\ \A c \in Cycles : WF_vars(Resume(c))

\* All handlers, interleaved, each resumed when its call ends.
FairSpec == Spec /\ \A p \in Procs : WF_vars(Resume(p))

\* ----------------------------------------------------- compressEvents alone
\* Event lists handed to compressEvents: n events with distinct ids, the
\* first one stamped 0 or later, the first k already compressed.
InputEvents(n, base, k) ==
  [i \in 1..n |->
     [id |-> 100 + i, timestamp |-> base + i - 1, text |-> <<"e">>,
      importance |-> DefaultImportance, compressed |-> (i <= k)]]

InputLists ==
  {InputEvents(n, base, k) : n \in 0..MaxInput, base \in {0, 50}, k \in {0, 2}}

\* Lines a response may hold: a bullet, an indented dash, a bare bullet,
\* prose with a dash inside, an empty line.
LineForms ==
  { <<"B", " ", "x">>, <<" ", "-", "y", " ">>, <<"B">>, <<"x", "-">>, <<>> }

Responses ==
  { [kind |-> k, lines |-> <<>>] : k \in {"raise", "budget", "nochoice"} }
  \cup { [kind |-> "text", lines |-> ls] :
           ls \in UNION {[1..n -> LineForms] : n \in 1..MaxLines} }

\* generateId() for the summaries of the stand-alone call
AloneIds == [i \in 1..MaxLines + 1 |-> 200 + i]

\* Date.now() at the return of the stand-alone call
AloneNow == 99

pipelineVars ==
  <<doc, stored, defEvents, defChars, isProcessing, memory, pc, loc, ids, cst,
    chunks, chunkIx, clock, starts, serial, handed, run, snap, upd,
    tok, memTok, sets, ext, scanned, skipped, observe, setFails>>

\* compressEvents(cIn, ...) runs to its return; generate() answers resp
CompressAlone ==
  /\ ~cDone
  /\ \E resp \in Responses :
       /\ cResp' = IF CompressCallsService(cIn) THEN resp ELSE NoResponse
       /\ cOut' = CompressEvents(cIn, resp, AloneIds, AloneNow)
  /\ cDone' = TRUE
  /\ UNCHANGED <<cIn, pipelineVars, fnArg, fnRes, fnDone>>

CompressInit ==
  /\ InitPipeline
  /\ serial = TRUE
  /\ observe = FALSE
  /\ setFails = FALSE
  /\ cIn \in InputLists
  /\ cResp = NoResponse
  /\ cOut = <<>>
  /\ cDone = FALSE
  /\ InitFn

CompressNext == CompressAlone

CompressSpec == CompressInit /\ [][CompressNext]_vars

\* ------------------------------------------------------ one call of a function
\* The values the service may put under a key of its answer; JUndefined
\* stands for a key that is left out.
AnyValues ==
  << JUndefined, JNull, JNumber, JString(<<"a">>), JArray(<<>>),
     JArray(<<JString(<<"a">>)>>), JObject(<<>>),
     JObject(<< << <<"Ann">>, JString(<<"s">>) >> >>),
     JObject(<< << <<"Ann">>, JNumber >> >>) >>

AnyObject(e, c, s) ==
  JObject(SelectSeq(<< << <<"events">>, e >>, << <<"characters">>, c >>,
                       << <<"situation">>, s >> >>,
                    LAMBDA m : m[2].t # "undefined"))

\* Answers that are one whole JSON object, of any types under the three keys.
WholeResponses ==
  { TextResponse(AnyObject(AnyValues[e], AnyValues[c], AnyValues[s])) :
    e \in DOMAIN AnyValues, c \in DOMAIN AnyValues, s \in DOMAIN AnyValues }

\* The objects whose serialization the token limit of the call cuts short.
CutObjects ==
  << FactsJson(JArray(<<JString(<<"a">>), JString(<<"b">>)>>),
              JObject(<< << <<"Ann">>, JString(<<"s">>) >> >>), JString(<<"x">>)),
    FactsJson(JArray(<<JString(<<"a", "}", "b">>)>>), JObject(<<>>), JNull),
    FactsJson(JArray(<<JString(<<"a", "[", "b">>), JNumber>>),
              JObject(<< << <<"Ann">>, JString(<<"s">>) >>,
                         << <<"Bob">>, JNull >> >>),
              JString(<<"x", "]">>)),
    JObject(<< << <<"characters">>, JObject(<< << <<"Ann">>, JObject(<<>>) >> >>) >>,
               << <<"events">>, JArray(<<JArray(<<>>), JString(<<"a">>)>>) >> >>) >>

\* s cut after a symbol, or inside the literal null
Truncations(s) ==
  { SubSeq(s, 1, n) : n \in 1..(Len(s) - 1) } \cup
  { SubSeq(s, 1, n - 1) \o <<"nu">> : n \in {i \in 2..Len(s) : s[i] = "null"} }

TruncatedResponses ==
  { [kind |-> "text", content |-> t] :
    t \in UNION { Truncations(Stringify(CutObjects[i])) : i \in DOMAIN CutObjects } }

ExtractCalls ==
  { [fn |-> "extract", resp |-> r] :
    r \in WholeResponses \cup TruncatedResponses \cup FailedResponses
          \cup {[kind |-> "nochoice", content |-> <<>>]} }

\* Backlog lengths: the hundreds up to MaxBacklogHundreds, and their neighbours.
MaxBacklogHundreds == 160

BacklogLengths ==
  { n \in { h * 100 + d : h \in 0..MaxBacklogHundreds, d \in {0, 1, 99} } :
    n >= MinNewChars }

ChunkCalls == { [fn |-> "chunks", len |-> n] : n \in BacklogLengths }

\* Lists given to formatMemoryText have at most MaxItems elements.
MaxItems == 2

ItemTexts == { <<"a">>, <<"b", " ", "z">> }

FormatEvents ==
  UNION { [1..n -> { [text |-> t] : t \in ItemTexts }] : n \in 0..MaxItems }

\* Object.entries(characters): the names differ
FormatCharacters ==
  { c \in UNION { [1..n -> { [name |-> <<ToString(k)>>, state |-> t] :
                             k \in 1..MaxItems, t \in ItemTexts }] : n \in 0..MaxItems } :
    \A i, j \in DOMAIN c : c[i].name = c[j].name => i = j }

FormatCalls ==
  { [fn |-> "format", events |-> e, characters |-> c, situation |-> x] :
    e \in FormatEvents, c \in FormatCharacters, x \in {<<>>} \cup ItemTexts }

\* Texts given to countTokens have at most MaxTextLength characters, and the
\* tokenizer answers with at most MaxTokens tokens.
MaxTextLength == 20
MaxTokens == 6

CountCalls ==
  { [fn |-> "count", len |-> n, enc |-> e] :
    n \in 0..MaxTextLength,
    e \in {[ok |-> FALSE, tokens |-> 0]} \cup { [ok |-> TRUE, tokens |-> m] : m \in 0..MaxTokens } }

\* scan() returns at most MaxScan sections.
MaxScan == 3

\* Section ids are distinct; a text may be empty.
ScanResults ==
  { r \in UNION { [1..n -> [sectionId : 1..MaxScan, text : {<<>>} \cup ItemTexts]] :
                  n \in 0..MaxScan } :
    \A i, j \in DOMAIN r : r[i].sectionId = r[j].sectionId => i = j }

\* the marker is null (0), the id of a section, or an id the story has lost
ScanCalls ==
  { [fn |-> "scan", scanResults |-> r, marker |-> m] :
    r \in ScanResults, m \in 0..(MaxScan + 1) }

\* A refresh has at most MaxWindows windows and an extraction returns at
\* most MaxReturned events.
MaxWindows == 3
MaxReturned == 13

\* the events window w returned: event k has the text <<w, k>>
ReturnedTexts(w, count) == [k \in 1..count |-> <<w, k>>]

\* Date.now() at the windows: it never goes backwards
WindowTimes(n) ==
  { t \in [1..n -> {0, 1, ChunkMillis}] : \A i \in 1..(n - 1) : t[i] <= t[i + 1] }

WindowCalls ==
  UNION { { [fn |-> "windows",
             windows |-> [w \in 1..n |-> [texts |-> ReturnedTexts(w, c[w]), now |-> t[w]]]] :
            c \in [1..n -> {0, 1, MaxReturned \div 2, MaxReturned}], t \in WindowTimes(n) } :
          n \in 1..MaxWindows }

\* Texts handed to extraction: the empty one and the backlog lengths
PromptCalls == { [fn |-> "prompt", len |-> n] : n \in {0, 1} \cup BacklogLengths }

FnCalls ==
  ExtractCalls \cup ChunkCalls \cup FormatCalls \cup CountCalls \cup ScanCalls
  \cup WindowCalls \cup PromptCalls

\* extractEventsFromText picks the text of its prompt
PromptCall ==
  /\ ~fnDone
  /\ fnArg.fn = "prompt"
  /\ fnRes' = [fn |-> "prompt", text |-> ProcessText(fnArg.len)]
  /\ fnDone' = TRUE
  /\ UNCHANGED <<fnArg, cIn, cResp, cOut, cDone, pipelineVars>>

\* forceRefresh pushes the events of its windows
WindowsCall ==
  /\ ~fnDone
  /\ fnArg.fn = "windows"
  /\ fnRes' = [fn |-> "windows", events |-> WindowEvents(<<>>, fnArg.windows, 0)]
  /\ fnDone' = TRUE
  /\ UNCHANGED <<fnArg, cIn, cResp, cOut, cDone, pipelineVars>>

\* processNewContent accumulates newText
ScanCall ==
  /\ ~fnDone
  /\ fnArg.fn = "scan"
  /\ fnRes' = [fn |-> "scan",
               newText |-> NewText(fnArg.scanResults, fnArg.marker, fnArg.marker = 0)]
  /\ fnDone' = TRUE
  /\ UNCHANGED <<fnArg, cIn, cResp, cOut, cDone, pipelineVars>>

CountCall ==
  /\ ~fnDone
  /\ fnArg.fn = "count"
  /\ fnRes' = [fn |-> "count", out |-> CountTokens(fnArg.len, fnArg.enc)]
  /\ fnDone' = TRUE
  /\ UNCHANGED <<fnArg, cIn, cResp, cOut, cDone, pipelineVars>>

FormatCall ==
  /\ ~fnDone
  /\ fnArg.fn = "format"
  /\ fnRes' = [fn |-> "format",
               text |-> FormatMemoryText(fnArg.events, fnArg.characters, fnArg.situation)]
  /\ fnDone' = TRUE
  /\ UNCHANGED <<fnArg, cIn, cResp, cOut, cDone, pipelineVars>>

\* forceRefresh splits the backlog
ChunkCall ==
  /\ ~fnDone
  /\ fnArg.fn = "chunks"
  /\ fnRes' = [fn |-> "chunks", chunks |-> Chunks(fnArg.len)]
  /\ fnDone' = TRUE
  /\ UNCHANGED <<fnArg, cIn, cResp, cOut, cDone, pipelineVars>>

ExtractCall ==
  /\ ~fnDone
  /\ fnArg.fn = "extract"
  /\ fnRes' = [fn |-> "extract", out |-> ExtractEventsFromText(fnArg.resp)]
  /\ fnDone' = TRUE
  /\ UNCHANGED <<fnArg, cIn, cResp, cOut, cDone, pipelineVars>>

FnInit ==
  /\ InitPipeline
  /\ serial = TRUE
  /\ observe = FALSE
  /\ setFails = FALSE
  /\ cIn = <<>> /\ cResp = NoResponse /\ cOut = <<>> /\ cDone = FALSE
  /\ fnArg \in FnCalls
  /\ fnRes = NoCall
  /\ fnDone = FALSE

FnNext ==
  \/ ExtractCall \/ ChunkCall \/ FormatCall \/ CountCall \/ ScanCall
  \/ WindowsCall \/ PromptCall

FnSpec == FnInit /\ [][FnNext]_vars

\* ------------------------------------------------------------------ claims
\* Labels of a cycle between `isProcessing = true` and its finally block.
TryLabels ==
  {"ids", "scan", "saveShort", "extract", "save", "cload", "count",
   "compress", "csave", "publish"}

InTry(c) == pc[c] \in TryLabels

\* Labels of a refresh between its state load and its final publish.
RefreshLabels ==
  {"rscan", "rchunk", "rdelay", "rids", "save", "cload", "count", "compress",
   "csave", "publish"}

\* C1: at most one invocation of processNewContent is past its lock check
\* with work in progress; two cycles are never inside the try block at once.
C1_OneCycleAtATime ==
  \A c \in Cycles, d \in Cycles : c # d => ~(InTry(c) /\ InTry(d))

\* C2: a full refresh and an incremental cycle are never in progress at
\* the same time.
C2_RefreshExcludesCycle ==
  \A c \in Cycles : ~(InTry(c) /\ pc[Refresher] \in RefreshLabels)

\* C3: a cycle that set the lock ends on every path, and when it ends
\* isProcessing is false.
C3_LockAlwaysReleased ==
  /\ \A c \in Cycles : InTry(c) ~> (pc[c] = "idle")
  /\ [][\A c \in Cycles : InTry(c) /\ pc'[c] = "idle" => ~isProcessing']_vars

\* a cycle took the lock, handed text to extraction, failed in the merge
\* (nothing was ever saved) and ended with the lock released
C3_LockReleasedAfterThrow ==
  /\ handed[1] > 0
  /\ ~stored.present
  /\ Quiescent
  /\ ~isProcessing

PersistedMarker ==
  IF stored.present THEN stored.data.lastProcessedSectionId ELSE 0

\* C4: no step other than Clear All's save lowers the persisted
\* lastProcessedSectionId.
C4_MarkerMonotonic ==
  [][pc[Clearer] = "xload" \/ PersistedMarker' >= PersistedMarker]_vars

\* C5: no section's text is handed to extraction by more than one cycle.
C5_NeverReprocessed == \A s \in 1..MaxSections : handed[s] <= 1

\* C6: a cycle that has accumulated its new text ends with the persisted
\* marker equal to the last section id it listed, whatever happens later.
C6_MarkerPersisted ==
  [][\A c \in Cycles :
       (InTry(c) /\ pc[c] \notin {"ids", "scan"} /\ pc'[c] = "idle")
         => (stored'.present /\ stored'.data.lastProcessedSectionId = ids[c])]_vars

\* C7: a cycle rerun on an unchanged stream makes no extraction call and
\* leaves events, characters and currentSituation as the first run left them.
C7_RerunIdempotent ==
  run = "second" =>
    /\ \A c \in Cycles : pc[c] # "extract"
    /\ LoadedFacts = snap


\* The summarization call failed: it raised, returned no choice, or its
\* text holds no bullet line.
FailedResponse(resp) ==
  \/ resp.kind \in {"raise", "budget", "nochoice"}
  \/ resp.kind = "text" /\ BulletTexts(resp.lines) = <<>>

\* C8: when the summarization call fails, compressEvents returns its input
\* event list unchanged.
C8_FailureKeepsEvents ==
  (cDone /\ FailedResponse(cResp)) => cOut = cIn

\* C9: for more than 3 events and a response with choices, the last
\* min(3, floor(0.3 * length)) events of the result are those of the input.
C9_RecentKept ==
  (cDone /\ Len(cIn) > 3 /\ cResp.kind = "text") =>
    LET rc == IF (Len(cIn) * 3) \div 10 < 3 THEN (Len(cIn) * 3) \div 10 ELSE 3
    IN  /\ Len(cOut) >= rc
        /\ \A j \in 1..rc : cOut[Len(cOut) - rc + j] = cIn[Len(cIn) - rc + j]

\* ten events were compressed into at least one summary, three kept
C9_TenEventsCompressed ==
  /\ cDone
  /\ Len(cIn) = 10
  /\ cResp.kind = "text"
  /\ BulletTexts(cResp.lines) # <<>>
  /\ cOut # cIn

\* C10: for more than 3 events and a response with choices, the result has
\* no more elements than the input.
C10_NeverLonger ==
  (cDone /\ Len(cIn) > 3 /\ cResp.kind = "text") => Len(cOut) <= Len(cIn)


\* Invocations that run compileMemory.
Compilers == Cycles \cup {Refresher}

\* C11: whenever a cycle or a refresh writes the Memory field, the written
\* text has at most settings.tokenLimit tokens.
C11_WithinTokenLimit ==
  [][\A p \in Compilers :
       (pc[p] # "publish" /\ pc'[p] = "publish" /\ memory' # memory)
         => memTok' <= cst[p].settings.tokenLimit]_vars

\* C12: compileMemory calls compressEvents exactly when the measured count
\* is over tokenLimit * 0.8 (850 of 1000 does, 750 and 800 do not), and
\* what it then publishes is the text compiled from the saved event list.
C12_CompressionTrigger ==
  /\ [][\A p \in Compilers :
          (pc[p] = "count" /\ pc'[p] # "count") =>
            /\ pc'[p] \in {"compress", "csave"}
                 <=> tok'[p] * 10 > cst[p].settings.tokenLimit * 8
            /\ (cst[p].settings.tokenLimit = 1000 /\ tok'[p] = 850)
                 => pc'[p] \in {"compress", "csave"}
            /\ (cst[p].settings.tokenLimit = 1000 /\ tok'[p] \in {750, 800})
                 => pc'[p] = "publish"]_vars
  /\ [][\A p \in Compilers :
          (pc[p] = "csave" /\ pc'[p] = "publish") =>
            /\ stored.present
            /\ memory' \in {memory,
                            FormatMemory(stored.data.events,
                                         stored.data.characters,
                                         stored.data.currentSituation)}]_vars

\* a cycle measured over the threshold, replaced four events by a summary
\* and the newest event, saved them and published the text compiled from them
C12_CompressedThenPublished ==
  \E c \in Cycles :
    /\ pc[c] = "publish"
    /\ tok[c] = 0
    /\ sets[c] = 1
    /\ stored.present
    /\ \E i \in 1..Len(stored.data.events) : stored.data.events[i].compressed
    /\ memory = FormatMemory(stored.data.events, stored.data.characters,
                             stored.data.currentSituation)


\* compressEvents, run alone, replaced older events by summaries
Summarized ==
  /\ cDone
  /\ Len(cIn) > 3
  /\ cResp.kind = "text"
  /\ BulletTexts(cResp.lines) # <<>>

FactsOf(l) ==
  [events |-> EventsOf(l), characters |-> CharsOf(l),
   situation |-> l.currentSituation]

\* The extraction call of cycle c raised.
ExtractionRaised(c) == ext[c].kind \in {"raise", "budget"}

\* The step of cycle c that takes the result of an extraction call that
\* raised saves the facts the cycle loaded.
RaisedExtractionMerged(c) ==
  (pc[c] = "extract" /\ pc'[c] # "extract" /\ ext'[c].kind \in {"raise", "budget"})
    => /\ pc'[c] = "save"
       /\ stored'.present
       /\ stored'.data.events = EventsOf(loc[c])
       /\ stored'.data.characters = CharsOf(loc[c])
       /\ stored'.data.currentSituation = loc[c].currentSituation

\* C14 as stated: a cycle whose extraction call raised goes on without
\* raising, leaves events, characters and currentSituation as they were and
\* returns with the lock released.
C14_RaisedExtractionLeavesFacts ==
  [][\A c \in Cycles :
       /\ RaisedExtractionMerged(c)
       /\ ExtractionRaised(c) =>
            /\ (pc[c] # "idle" /\ pc'[c] = "idle")
                 => (pc[c] = "publish" /\ ~isProcessing')
            /\ stored'.data.events = stored.data.events
            /\ stored'.data.characters = stored.data.characters
            /\ stored'.data.currentSituation = stored.data.currentSituation]_vars

\* C14 amended: when the extraction call raises, the facts returned are
\* empty and the merge saves the loaded facts unchanged, a budget message is
\* logged with log and any other with error, the cycle goes on to its
\* publish and returns with the lock released; on the way only
\* compressEvents may change the saved facts.
C14_RaisedExtractionKeepsMergedFacts ==
  [][\A c \in Cycles :
       /\ RaisedExtractionMerged(c)
       /\ (pc[c] = "extract" /\ ExtractionRaised(c)')
            => ext'[c].log = IF ext'[c].kind = "budget" THEN "log" ELSE "error"
       /\ ExtractionRaised(c) =>
            /\ (pc[c] # "idle" /\ pc'[c] = "idle")
                 => (pc[c] = "publish" /\ ~isProcessing')
            /\ (stored'.data.events # stored.data.events) => pc[c] = "compress"
            /\ stored'.data.characters = stored.data.characters
            /\ stored'.data.currentSituation = stored.data.currentSituation]_vars

\* a cycle whose extraction call raised with a budget message has published
C14_BudgetCyclePublished ==
  \E c \in Cycles :
    /\ ext[c] = [kind |-> "budget", log |-> "log"]
    /\ pc[c] = "publish"
    /\ sets[c] = 1
    /\ isProcessing


\* an extraction call has returned or raised
Extracted == fnDone /\ fnArg.fn = "extract"

\* The value found under characters in what the service answered.
AnsweredCharacters ==
  Property(JsonParse(fnArg.resp.content).val, <<"characters">>)

\* C15 as stated: the facts extractEventsFromText returns are typed;
\* characters is a mapping from names to strings, a value of another type
\* under the key is replaced by {}, and the merge that follows does not fail.
C15_FactsAreTyped ==
  (Extracted /\ fnArg.resp \in WholeResponses) =>
    LET f == fnRes.out.facts
    IN  /\ ~fnRes.out.raised
        /\ f.characters.t = "object"
        /\ \A i \in 1..Len(f.characters.v) : f.characters.v[i][2].t = "string"
        /\ AnsweredCharacters.t # "object" => f.characters.v = <<>>
        /\ ~MergeThrows(ToFacts(f))

\* the span located in the truncated answer, and what the second parse gets
CutSpan == JsonMatch(fnArg.resp.content)

CutParse == JsonParse(JsonCandidate(CutSpan.str))

\* C16: on an answer that is a valid JSON object cut short anywhere after
\* its opening brace, extractEventsFromText does not raise; it returns the
\* facts read from an object that the span, as it is or repaired, parses
\* to, or else the empty fallback facts.
C16_TruncationNeverRaises ==
  (Extracted /\ fnArg.resp \in TruncatedResponses) =>
    /\ ~fnRes.out.raised
    /\ \/ /\ CutSpan.found
          /\ CutParse.ok
          /\ CutParse.val.t = "object"
          /\ fnRes.out.facts = TypedFacts(CutParse.val)
       \/ /\ ~CutSpan.found \/ ~CutParse.ok
          /\ fnRes.out.facts = FallbackFacts

\* a cut answer whose span parsed only after the repair, with an event read
C16_RepairedAndRead ==
  /\ Extracted
  /\ fnArg.resp \in TruncatedResponses
  /\ CutSpan.found
  /\ ~JsonParse(CutSpan.str).ok
  /\ CutParse.ok
  /\ fnRes.out.facts.events # <<>>


C18_ClearResetsEverything ==
  [][(pc[Clearer] = "xpub" /\ pc'[Clearer] = "idle" /\ memTok = 0)
       => /\ memory' = EmptyMemory
          /\ stored'.present
          /\ stored'.data.events = <<>>
          /\ stored'.data.characters = <<>>
          /\ stored'.data.currentSituation = <<>>
          /\ stored'.data.lastProcessedSectionId = 0
          /\ stored'.data.settings = DefaultSettings]_vars


\* the number of characters two chunks have in common
Shared(a, b) ==
  Cardinality({x \in a.from..(a.to - 1) : b.from <= x /\ x < b.to})

\* C19: a backlog longer than CHUNK_SIZE is split into chunks that cover
\* every index of it, consecutive chunks sharing exactly 1000 characters
\* unless the second is the final chunk and shorter than CHUNK_SIZE; a
\* backlog of at most CHUNK_SIZE characters is one chunk, the backlog.
C19_ChunksCoverAndOverlap ==
  (fnDone /\ fnArg.fn = "chunks") =>
    LET n == fnArg.len
        w == fnRes.chunks
    IN  /\ Len(w) = ChunkCount(n)
        /\ IF n > ChunkSize
           THEN /\ \A x \in 0..(n - 1) :
                     \E k \in 1..Len(w) : w[k].from <= x /\ x < w[k].to
                /\ \A k \in 1..Len(w) : 0 <= w[k].from /\ w[k].to <= n
                /\ \A k \in 1..(Len(w) - 1) :
                     \/ Shared(w[k], w[k + 1]) = ChunkOverlap
                     \/ /\ k + 1 = Len(w)
                        /\ w[k + 1].to - w[k + 1].from < ChunkSize
           ELSE w = <<[from |-> 0, to |-> n]>>

\* a backlog split into three chunks, the last one short, sharing fewer
\* than 1000 characters with the one before it
C19_FinalShortChunk ==
  /\ fnDone
  /\ fnArg.fn = "chunks"
  /\ Len(fnRes.chunks) = 3
  /\ Shared(fnRes.chunks[1], fnRes.chunks[2]) = ChunkOverlap
  /\ Shared(fnRes.chunks[2], fnRes.chunks[3]) < ChunkOverlap


Headers == {TimelineHeader, SituationHeader, CharactersHeader}

\* the headers the sources given to formatMemoryText call for, in order
HeadersDue ==
  (IF fnArg.events # <<>> THEN <<TimelineHeader>> ELSE <<>>)
  \o (IF fnArg.situation # <<>> THEN <<SituationHeader>> ELSE <<>>)
  \o (IF fnArg.characters # <<>> THEN <<CharactersHeader>> ELSE <<>>)

\* C20: the text of formatMemoryText holds the section of each non-empty
\* source and no other, in the order timeline, situation, characters; each
\* section after the first follows one blank line; with no source the text
\* is empty, and one event alone gives the timeline header and one bullet.
C20_SectionsInOrder ==
  (fnDone /\ fnArg.fn = "format") =>
    LET out == fnRes.text
    IN  /\ SelectSeq(out, LAMBDA x : x \in Headers) = HeadersDue
        /\ HeadersDue = <<>> <=> out = <<>>
        /\ out # <<>> => (out[1] \in Headers /\ out[Len(out)] # Newline)
        /\ \A i \in 2..Len(out) :
             /\ out[i] \in Headers =>
                  /\ i > 3
                  /\ out[i - 1] = Newline /\ out[i - 2] = Newline
                  /\ out[i - 3] # Newline
             /\ (out[i] = Newline /\ out[i - 1] = Newline)
                  => (i < Len(out) /\ out[i + 1] \in Headers)
        /\ (Len(fnArg.events) = 1 /\ fnArg.situation = <<>> /\ fnArg.characters = <<>>)
             => out = <<TimelineHeader, Newline, "* ">> \o fnArg.events[1].text

\* a text with the three sections
C20_ThreeSections ==
  /\ fnDone
  /\ fnArg.fn = "format"
  /\ Len(fnArg.events) = 2
  /\ SelectSeq(fnRes.text, LAMBDA x : x \in Headers)
       = <<TimelineHeader, SituationHeader, CharactersHeader>>


\* the stored text of read r is an object that has key k
StoredHas(r, k) ==
  /\ r.kind = "text"
  /\ JsonParse(r.text).ok
  /\ Property(JsonParse(r.text).val, StorageKeys[k]).t # "undefined"

\* C21 as stated: whatever the store answers, getStorage does not raise and
\* returns a state with every key; a key the stored object lacks has its
\* declared default, and with nothing readable in the store the state is
\* the declared default state.
C21_LoadDefaultsMissingKeys ==
  \A r \in StoredReads :
    /\ ~GetStorageOn(r).raised
    /\ \A k \in DOMAIN StorageKeys :
         /\ GetStorageOn(r).state[k].t # "undefined"
         /\ ~StoredHas(r, k) =>
              /\ GetStorageOn(r).state[k].t = DeclaredDefaults[k].t
              /\ GetStorageOn(r).state[k].v = DeclaredDefaults[k].v


\* C22: countTokens does not raise; it returns the number of tokens the
\* tokenizer gave, and when the tokenizer call failed the least integer
\* that is at least a quarter of the text length, which is 0 for the empty
\* text and never negative.
C22_CountOrQuarterLength ==
  (fnDone /\ fnArg.fn = "count") =>
    LET n == fnRes.out.count
    IN  /\ ~fnRes.out.raised
        /\ n >= 0
        /\ fnArg.enc.ok => n = fnArg.enc.tokens
        /\ ~fnArg.enc.ok =>
             /\ 4 * n >= fnArg.len
             /\ 4 * (n - 1) < fnArg.len
             /\ fnArg.len = 0 => n = 0

\* the tokenizer failed on a text of five characters: two tokens
C22_FallbackRoundsUp ==
  /\ fnDone
  /\ fnArg.fn = "count"
  /\ ~fnArg.enc.ok
  /\ fnArg.len = 5
  /\ fnRes.out.count = 2


\* C23 as stated: a refresh that starts while an incremental cycle is
\* between taking and releasing the lock leaves isProcessing true.
C23_RefreshKeepsCycleLock ==
  [][((\E c \in Cycles : InTry(c)) /\ isProcessing
      /\ pc[Refresher] = "idle" /\ pc'[Refresher] # "idle")
       => isProcessing']_vars


\* C24 as stated, for the settings: once updateSettings and Clear All have
\* returned, a save made by a cycle or a refresh that was in flight leaves
\* the persisted settings as those writes left them.
C24_InFlightSaveKeepsSettings ==
  [][\A p \in Compilers :
       (pc'[p] # pc[p] /\ stored' # stored /\ stored.present
        /\ pc[Setter] = "idle" /\ pc[Clearer] = "idle")
         => stored'.data.settings = stored.data.settings]_vars


\* C25 as stated: the marker a refresh persists is not beyond the sections
\* its scan returned, whose text it split into chunks.
C25_RefreshMarksOnlyScanned ==
  [][(pc[Refresher] = "rids" /\ pc'[Refresher] = "save")
       => stored'.data.lastProcessedSectionId <= scanned]_vars


\* C26 as stated: at any moment a getStorage call that finds nothing stored,
\* or whose read fails, returns no events and no characters.
C26_EmptyStoreLoadsEmpty ==
  \A k \in {"reject", "nothing"} :
    LET st == GetStorageOn([kind |-> k, text |-> <<>>]).state
    IN  st[1].v = <<>> /\ st[2].v = <<>>


\* C27: an invocation of processNewContent goes past its first line only
\* when the lock is free; one that finds the lock held changes nothing: no
\* storage, document, service, tokenizer or memory call is made, and the
\* lock flag stays as it was.
C27_HeldLockDropsInvocation ==
  [][\A c \in Cycles :
       /\ (pc[c] = "idle" /\ pc'[c] # "idle") => ~isProcessing
       /\ (skipped'[c] /\ ~skipped[c])
            => /\ isProcessing /\ isProcessing'
               /\ UNCHANGED <<doc, stored, defEvents, defChars, memory, pc, loc,
                              ids, cst, tok, memTok, sets, ext, handed, starts>>]_vars

\* a generation end found the lock held and was dropped
C27_InvocationDropped ==
  \E c \in Cycles :
    /\ skipped[c]
    /\ pc[c] = "idle"
    /\ isProcessing


\* the positions, in the scan of the call at hand, of the sections that
\* come after the one the marker identifies: all of them for a null marker
AfterMarker ==
  LET r  == fnArg.scanResults
      at == {i \in DOMAIN r : r[i].sectionId = fnArg.marker}
  IN  IF fnArg.marker = 0 THEN DOMAIN r
      ELSE {i \in DOMAIN r : \E j \in at : j < i}

\* the texts at the positions S from position i on, each non-empty one
\* followed by a newline, in document order
RECURSIVE TextsAt(_, _)
TextsAt(S, i) ==
  IF i > Len(fnArg.scanResults) THEN <<>>
  ELSE (IF i \in S /\ fnArg.scanResults[i].text # <<>>
        THEN fnArg.scanResults[i].text \o <<Newline>> ELSE <<>>)
       \o TextsAt(S, i + 1)

\* C28: the new text of a cycle is made, in document order, of the texts of
\* the sections after the one whose id is the marker, of all sections when
\* the marker is null, and of nothing else.
C28_NewTextIsAfterMarker ==
  (fnDone /\ fnArg.fn = "scan") => fnRes.newText = TextsAt(AfterMarker, 1)

\* a marker in the middle of three sections: only the third contributes
C28_MiddleMarker ==
  /\ fnDone
  /\ fnArg.fn = "scan"
  /\ Len(fnArg.scanResults) = 3
  /\ fnArg.scanResults[2].sectionId = fnArg.marker
  /\ fnArg.scanResults[1].text # <<>>
  /\ fnArg.scanResults[3].text # <<>>
  /\ fnRes.newText = fnArg.scanResults[3].text \o <<Newline>>


\* C29: a cycle whose new text has fewer than 50 characters saves the state
\* it loaded with the marker moved to the last listed section, and then
\* returns: it calls neither extraction nor the tokenizer nor memory.set,
\* and events, characters and currentSituation stay as they were loaded.
C29_ShortTextOnlyMovesMarker ==
  [][\A c \in Cycles :
       /\ (pc[c] = "scan" /\ pc'[c] = "saveShort")
            => /\ TrimmedLength(NewSections(loc[c].lastProcessedSectionId)) < MinNewChars
               /\ stored'.present
               /\ stored'.data.lastProcessedSectionId = ids[c]
               /\ stored'.data.events = LoadedFacts.events
               /\ stored'.data.characters = LoadedFacts.characters
               /\ stored'.data.currentSituation = LoadedFacts.situation
               /\ stored'.data.settings = GetStorage.settings
       /\ (pc[c] = "scan" /\ pc'[c] = "extract")
            => TrimmedLength(NewSections(loc[c].lastProcessedSectionId)) >= MinNewChars
       /\ pc[c] = "saveShort"
            => /\ pc'[c] \in {"saveShort", "idle"}
               /\ UNCHANGED <<stored, memory, memTok>>
               /\ ext[c] = NoExtraction /\ ext'[c] = NoExtraction
               /\ tok[c] = 0 /\ tok'[c] = 0
               /\ sets[c] = 0 /\ sets'[c] = 0]_vars

\* a second cycle on twenty new characters has saved the marker over the
\* events of the first
C29_ShortCycleAfterLong ==
  \E c \in Cycles :
    /\ pc[c] = "saveShort"
    /\ stored.data.lastProcessedSectionId = 2
    /\ stored.data.events # <<>>


\* C30: the merge of a cycle leaves the events it loaded unchanged and in
\* place at the front, and appends after them one event per extracted event
\* string, in the extracted order, each with importance 3 and compressed =
\* false.
C30_MergeAppendsInOrder ==
  [][\A c \in Cycles :
       (pc[c] = "extract" /\ pc'[c] = "save")
         => LET before == LoadedFacts.events
                after  == stored'.data.events
                n      == Len(before)
            IN  /\ Len(after) >= n
                /\ SubSeq(after, 1, n) = before
                /\ \E x \in PipelineExtractions :
                     /\ x.kind = ext'[c].kind /\ x.log = ext'[c].log
                     /\ Len(after) = n + Len(x.facts.events)
                     /\ \A i \in 1..Len(x.facts.events) :
                          /\ after[n + i].text = x.facts.events[i]
                          /\ after[n + i].importance = 3
                          /\ after[n + i].compressed = FALSE]_vars

\* a second cycle has appended its two events after the two the first stored
C30_TwoAppendedAfterTwo ==
  \E c \in Cycles :
    /\ pc[c] = "save"
    /\ starts = 2
    /\ Len(stored.data.events) = 4
    /\ \A i \in 1..4 : ~stored.data.events[i].compressed
    /\ stored.data.events[2].text = stored.data.events[4].text
    /\ stored.data.events[1].text # stored.data.events[2].text


\* What is stored under 'memoryManagerData', formatted by formatMemoryText
PersistedMemory ==
  FormatMemory(stored.data.events, stored.data.characters,
               stored.data.currentSituation)

\* C31: with handlers run one after another, a memory.set call of a cycle,
\* a refresh or Clear All that changes the Memory field leaves in it
\* formatMemoryText of the persisted events, characters and
\* currentSituation, also when a write of the state was rejected.
C31_MemoryIsPersistedFacts ==
  [][\A p \in Procs :
       (pc[p] # pc'[p] /\ pc'[p] \in {"publish", "xpub"} /\ memory' # memory)
         => memory' = PersistedMemory']_vars


\* the texts and the character names the extraction service answers with
ExtractedTexts == UNION {{f.events[i] : i \in DOMAIN f.events} : f \in ExtractOutcomes}

ExtractedNames ==
  UNION {{f.characters.entries[i][1] : i \in DOMAIN f.characters.entries} :
         f \in ExtractOutcomes}

\* forceRefresh has saved its state and not yet returned
RefreshSaved == pc[Refresher] \in {"save", "cload", "count", "compress", "csave", "publish"}

\* C32: a refresh goes on from its load whatever autoUpdate says; once it
\* has saved, every persisted event is one this refresh extracted or a
\* compressed replacement, none is an event stored before, every persisted
\* character has a name this refresh extracted, and no step of the refresh
\* changes the persisted settings.
C32_RefreshReplacesFacts ==
  [][/\ pc[Refresher] = "rload" => pc'[Refresher] = "rscan"
     /\ stored'.data.settings = stored.data.settings
     /\ RefreshSaved' =>
          /\ \A i \in DOMAIN stored'.data.events :
               LET e == stored'.data.events[i]
               IN  /\ e.compressed \/ e.text \in ExtractedTexts
                   /\ \A j \in DOMAIN CycleStored(TRUE).data.events :
                        e # CycleStored(TRUE).data.events[j]
          /\ \A i \in DOMAIN stored'.data.characters :
               /\ stored'.data.characters[i].name \in ExtractedNames
               /\ stored'.data.characters[i].lastUpdated = clock]_vars

\* with autoUpdate off and the facts of earlier cycles in the store, a
\* refresh of the long story is about to publish its own events and character
C32_RefreshedWithAutoUpdateOff ==
  /\ pc[Refresher] = "publish"
  /\ starts = 1
  /\ ~stored.data.settings.autoUpdate
  /\ Len(stored.data.events) >= 2
  /\ Len(stored.data.characters) = 1


\* C33: a refresh whose whole backlog has fewer than 50 characters ends at
\* its scan; from its start to its return the persisted state, the default
\* objects and the Memory field stay exactly as they were.
C33_ShortBacklogChangesNothing ==
  [][(TextLength(AllSections) - 1 < MinNewChars)
       => /\ pc[Refresher] = "rscan" => pc'[Refresher] = "idle"
          /\ pc[Refresher] \in {"idle", "rload", "rscan"}
               => UNCHANGED <<stored, memory, defEvents, defChars>>]_vars

\* a refresh of the 20-character story has returned and the store still
\* holds what the earlier cycles left
C33_AbortedOverStoredFacts ==
  /\ pc[Refresher] = "idle"
  /\ starts = 1
  /\ doc = <<20>>
  /\ stored = CycleStored(FALSE)
  /\ memory = EmptyMemory


\* C34: whatever the extraction of window i returned and however its merge
\* ended, the refresh goes on to the delay and then the extraction of
\* window i + 1, and after the last window to the marker advance and the
\* save, from which it goes on to memory.set.
C34_WindowFailureGoesOn ==
  [][/\ pc[Refresher] = "rchunk"
          => IF chunkIx + 1 < chunks
             THEN pc'[Refresher] = "rdelay" /\ chunkIx' = chunkIx + 1
             ELSE pc'[Refresher] = "rids" /\ chunkIx' = chunkIx
     /\ pc[Refresher] = "rdelay"
          => pc'[Refresher] = "rchunk" /\ chunkIx' = chunkIx
     /\ (pc[Refresher] = "rids" /\ pc'[Refresher] # "idle")
          => /\ pc'[Refresher] = "save"
             /\ stored'.present
             /\ stored'.data.lastProcessedSectionId = Len(doc)
             /\ stored'.data.events = loc[Refresher].events
     /\ pc[Refresher] \in {"save", "cload", "count", "compress", "csave"}
          => pc'[Refresher] # "idle"]_vars

\* the merge of the first of two windows threw after its event was pushed,
\* and the second window was merged whole
C34_SecondWindowAfterThrow ==
  /\ pc[Refresher] = "rids"
  /\ chunks = 2
  /\ Len(loc[Refresher].events) = 3
  /\ loc[Refresher].events[1].timestamp = ChunkTimestamp(clock, 2, 0)
  /\ loc[Refresher].events[2].timestamp = ChunkTimestamp(clock, 2, 1)
  /\ Len(loc[Refresher].characters) = 1


\* the events a window step pushed are those of extraction f, capped
PushedFrom(f) ==
  LET before == loc[Refresher].events
      after  == loc'[Refresher].events
      texts  == Take(f.events, MaxEventsPerChunk(chunks))
  IN  /\ Len(after) = Len(before) + Len(texts)
      /\ \A i \in DOMAIN texts : after[Len(before) + i].text = texts[i]

\* C35: the step of a window leaves every character the window named in
\* the state the window gave and the other characters as they were; the
\* step of the final window leaves as currentSituation the situation that
\* window's extraction returned, and the steps of the earlier windows leave
\* it empty.
C35_LastWindowFacts ==
  [][pc[Refresher] = "rchunk" =>
       \E f \in ExtractOutcomes :
         /\ PushedFrom(f)
         /\ \A i \in DOMAIN f.characters.entries :
              \E k \in DOMAIN loc'[Refresher].characters :
                /\ loc'[Refresher].characters[k].name = f.characters.entries[i][1]
                /\ loc'[Refresher].characters[k].state = f.characters.entries[i][2]
         /\ \A k \in DOMAIN loc[Refresher].characters :
              (\A i \in DOMAIN f.characters.entries :
                 f.characters.entries[i][1] # loc[Refresher].characters[k].name)
                => loc'[Refresher].characters[k] = loc[Refresher].characters[k]
         /\ loc'[Refresher].currentSituation =
              IF chunkIx = chunks - 1 THEN f.situation ELSE <<>>]_vars


\* a refresh's window loop has returned
WindowsDone == fnDone /\ fnArg.fn = "windows"

\* the events of the result that came from window w, in array order
RECURSIVE FromWindow(_, _)
FromWindow(evs, w) ==
  IF evs = <<>> THEN <<>>
  ELSE (IF Head(evs).text[1] = w THEN <<Head(evs)>> ELSE <<>>)
       \o FromWindow(Tail(evs), w)

\* C36: in a refresh of n windows the events appended from a window are the
\* first ceil(10 / n) + 2 of those its extraction returned, or all of them
\* when there are fewer, in the returned order; the list holds at most
\* n * (ceil(10 / n) + 2) events after the loop.
C36_WindowEventsCapped ==
  WindowsDone =>
    LET n   == Len(fnArg.windows)
        cap == (10 + n - 1) \div n + 2
    IN  /\ Len(fnRes.events) <= n * cap
        /\ \A w \in 1..n :
             LET got  == FromWindow(fnRes.events, w)
                 sent == fnArg.windows[w].texts
             IN  /\ Len(got) = IF Len(sent) < cap THEN Len(sent) ELSE cap
                 /\ \A k \in DOMAIN got : got[k].text = sent[k]

\* three windows returned thirteen events each: six of each were appended
C36_ThirteenCutToSix ==
  /\ WindowsDone
  /\ Len(fnArg.windows) = 3
  /\ \A w \in 1..3 : Len(fnArg.windows[w].texts) = 13
  /\ Len(fnRes.events) = 18

\* C37: with Date.now() never going backwards from one window to the next,
\* every event of an earlier window has a timestamp strictly below that of
\* every event of a later window, and the events stand in the array in the
\* order of their windows.
C37_WindowsOrderedInTime ==
  WindowsDone =>
    \A p, q \in DOMAIN fnRes.events :
      LET e == fnRes.events[p]
          f == fnRes.events[q]
      IN  /\ e.text[1] < f.text[1] => e.timestamp < f.timestamp /\ p < q
          /\ p < q => e.text[1] <= f.text[1]

\* three windows pushed events within the same millisecond
C37_ThreeWindowsOneInstant ==
  /\ WindowsDone
  /\ Len(fnArg.windows) = 3
  /\ \A w \in 1..3 : fnArg.windows[w].now = 0 /\ Len(fnArg.windows[w].texts) = 1
  /\ Len(fnRes.events) = 3


\* C38: every window after the first ends beyond the end of the window
\* before it, so it holds at least one character that window does not.
C38_EveryWindowAddsText ==
  (fnDone /\ fnArg.fn = "chunks") =>
    \A k \in 1..(Len(fnRes.chunks) - 1) :
      fnRes.chunks[k + 1].to > fnRes.chunks[k].to


\* the closers of n unmatched brackets or braces, one by one
RECURSIVE Closers(_, _)
Closers(ch, n) == IF n <= 0 THEN <<>> ELSE <<ch>> \o Closers(ch, n - 1)

\* C39: a located span that fails the strict parse goes to the second parse
\* with one double quote appended when its double quotes are odd in number,
\* then one ] per unmatched [ and one } per unmatched {, and nothing else,
\* in the fact extraction and in the suggestion generation alike.
C39_RepairClosesWhatIsOpen ==
  (Extracted /\ CutSpan.found /\ ~JsonParse(CutSpan.str).ok) =>
    LET span   == CutSpan.str
        quotes == Cardinality({i \in DOMAIN span : span[i] = Quote})
        due    == span
                  \o (IF quotes % 2 = 1 THEN <<Quote>> ELSE <<>>)
                  \o Closers("]", CountSym(span, "[") - CountSym(span, "]"))
                  \o Closers("}", CountSym(span, "{") - CountSym(span, "}"))
    IN  /\ JsonCandidate(span) = due
        /\ SuggestionRepaired(span) = due


\* C40: the text put in the prompt always ends where the given text ends;
\* it is the whole text when that has at most 8000 characters and its last
\* 8000 characters otherwise.
C40_PromptKeepsTheTail ==
  (fnDone /\ fnArg.fn = "prompt") =>
    /\ fnRes.text.to = fnArg.len
    /\ fnArg.len <= 8000 => fnRes.text.from = 0
    /\ fnArg.len > 8000 => fnRes.text.to - fnRes.text.from = 8000

\* of a text of 8001 characters the first one was left out
C40_OneCharacterDropped ==
  /\ fnDone
  /\ fnArg.fn = "prompt"
  /\ fnArg.len = 8001
  /\ fnRes.text = [from |-> 1, to |-> 8001]

====
